---- MODULE Spec2Model ----
(***************************************************************************)
(* Request binding and validation-error mapping of stx-go-utils/structutil *)
(* (BindJSON, BindForm, Validate, ValidateForm, BindAndValidateJSON,       *)
(* BindAndValidateForm).                                                   *)
(*                                                                         *)
(* Representation.  Field names, tags, map keys and validator namespaces   *)
(* are sequences of one-character strings, so that strings.Split and the   *)
(* tag rules are computed and not assumed.  Messages, type names and raw   *)
(* submitted values are TLA+ strings.  A Go map is [nil, m]: nil tells the *)
(* nil map from an empty one.  A pointer is <<>> (nil) or <<v>>; a slice   *)
(* is [nil, elems].  float64 fields hold the integers the raw values       *)
(* parse to.                                                               *)
(***************************************************************************)
EXTENDS Integers, Sequences, FiniteSets, TLC

----------------------------------------------------------------------------
(* Bounds *)

\* total number of values one submitted form carries, over all its keys
MaxSubmitted == 3

\* number of members of one JSON object body
MaxMembers == 2

\* total number of values a form carries for a record that takes attachments
MaxMixed == 1

\* total number of attachments one multipart request carries
MaxFiles == 2

\* number of elements of one slice of a nested request
MaxElems == 2

\* number of rows of a grid, and of cells of one row
MaxRows == 1
MaxCols == 2

\* largest magnitude of the totalData argument of CalculateTotalPage
MaxTotalData == 7

\* largest magnitude of the perPage argument of CalculateTotalPage
MaxPerPage == 4

----------------------------------------------------------------------------
(* strings *)

RECURSIVE Split(_, _)
\* strings.Split(s, sep) for a one-character separator
Split(s, sep) ==
    IF \E i \in 1..Len(s) : s[i] = sep
    THEN LET i == CHOOSE k \in 1..Len(s) :
                     s[k] = sep /\ \A j \in 1..(k - 1) : s[j] # sep
         IN  <<SubSeq(s, 1, i - 1)>> \o Split(SubSeq(s, i + 1, Len(s)), sep)
    ELSE <<s>>

RECURSIVE JoinTokens(_, _)
\* strings.Join over TLA+ strings
JoinTokens(toks, sep) ==
    IF toks = <<>> THEN ""
    ELSE IF Len(toks) = 1 THEN toks[1]
    ELSE toks[1] \o sep \o JoinTokens(Tail(toks), sep)

s_name == <<"n", "a", "m", "e">>
s_age == <<"a", "g", "e">>
s_nick == <<"n", "i", "c", "k">>
s_count == <<"c", "o", "u", "n", "t">>
s_active == <<"a", "c", "t", "i", "v", "e">>
s_ids == <<"i", "d", "s">>
s_ratio == <<"r", "a", "t", "i", "o">>
s_size == <<"s", "i", "z", "e">>
s_tags == <<"t", "a", "g", "s">>
s_extra == <<"e", "x", "t", "r", "a">>
s_json == <<"j", "s", "o", "n">>
s_form == <<"f", "o", "r", "m">>
s_dash == <<"-">>
s_omitempty == <<",", "o", "m", "i", "t", "e", "m", "p", "t", "y">>

n_Name == <<"N", "a", "m", "e">>
n_Age == <<"A", "g", "e">>
n_Nick == <<"N", "i", "c", "k">>
n_Count == <<"C", "o", "u", "n", "t">>
n_Active == <<"A", "c", "t", "i", "v", "e">>
n_IDs == <<"I", "D", "s">>
n_Ratio == <<"R", "a", "t", "i", "o">>
n_Size == <<"S", "i", "z", "e">>
n_Tags == <<"T", "a", "g", "s">>
n_NoTag == <<"N", "o", "T", "a", "g">>
n_Hidden == <<"H", "i", "d", "d", "e", "n">>
n_Opts == <<"O", "p", "t", "s">>

n_Req == <<"R", "e", "q">>
n_Opt == <<"O", "p", "t">>
n_Misc == <<"M", "i", "s", "c">>
n_Tagless == <<"T", "a", "g", "l", "e", "s", "s">>

s_avatar == <<"a", "v", "a", "t", "a", "r">>
s_docs == <<"d", "o", "c", "s">>
s_other == <<"o", "t", "h", "e", "r">>
n_Avatar == <<"A", "v", "a", "t", "a", "r">>
n_Docs == <<"D", "o", "c", "s">>
n_Upload == <<"U", "p", "l", "o", "a", "d">>

s_meta == <<"m", "e", "t", "a">>
s_note == <<"n", "o", "t", "e">>
s_roles == <<"r", "o", "l", "e", "s">>
s_id == <<"i", "d">>
s_permissionIds == <<"p", "e", "r", "m", "i", "s", "s", "i", "o", "n", "I", "d", "s">>
s_permission_ids == <<"p", "e", "r", "m", "i", "s", "s", "i", "o", "n", "_", "i", "d", "s">>
s_owner == <<"o", "w", "n", "e", "r">>
s_comment == <<"c", "o", "m", "m", "e", "n", "t">>
s_value == <<"v", "a", "l", "u", "e">>
n_Meta == <<"M", "e", "t", "a">>
n_Note == <<"N", "o", "t", "e">>
n_Roles == <<"R", "o", "l", "e", "s">>
n_ID == <<"I", "D">>
n_PermissionIDs == <<"P", "e", "r", "m", "i", "s", "s", "i", "o", "n", "I", "D", "s">>
n_Owner == <<"O", "w", "n", "e", "r">>
n_UserRequest == <<"U", "s", "e", "r", "R", "e", "q", "u", "e", "s", "t">>
n_Comment == <<"C", "o", "m", "m", "e", "n", "t">>
n_Pair == <<"P", "a", "i", "r">>
n_First == <<"F", "i", "r", "s", "t">>
n_Second == <<"S", "e", "c", "o", "n", "d">>
n_Grid == <<"G", "r", "i", "d">>
n_Cells == <<"C", "e", "l", "l", "s">>
s_cells == <<"c", "e", "l", "l", "s">>

----------------------------------------------------------------------------
(* types (reflect.Type) and record shapes *)

TString == [kind |-> "string"]
TInt == [kind |-> "int"]
TUint == [kind |-> "uint"]
TFloat64 == [kind |-> "float64"]
TBool == [kind |-> "bool"]
\* *multipart.FileHeader, nil (<<>>) or <<file name>>; the file list is
\* SliceOf(TFile)
TFile == [kind |-> "file"]
PtrTo(t) == [kind |-> "ptr", elem |-> t]
SliceOf(t) == [kind |-> "slice", elem |-> t]
StructOf(nm, fs) == [kind |-> "struct", name |-> nm, fields |-> fs]

RECURSIVE TypeString(_)
\* reflect.Type.String()
TypeString(t) ==
    CASE t.kind = "ptr" -> "*" \o TypeString(t.elem)
      [] t.kind = "slice" -> "[]" \o TypeString(t.elem)
      [] t.kind = "struct" -> "struct"
      [] t.kind = "file" -> "*multipart.FileHeader"
      [] OTHER -> t.kind

\* one `validate` constraint: kind, parameter as its space-separated tokens,
\* and the parameter's number for min and max
Constraint(tag, param, n) == [tag |-> tag, param |-> param, n |-> n]
Required == Constraint("required", <<>>, 0)
Min(n, txt) == Constraint("min", <<txt>>, n)
Uuid == Constraint("uuid", <<>>, 0)

\* `dive`: the constraints before it are the field's own, those after it are
\* its elements'
Dive == Constraint("dive", <<>>, 0)

\* a struct field: Go name, `json` tag text, `form` tag text (<<>> when the
\* tag is absent: reflect's Tag.Get returns ""), type, constraints
Field(nm, j, f, t, cs) ==
    [name |-> nm, json |-> j, form |-> f, type |-> t, validate |-> cs]

ShapeReq ==
    StructOf(n_Req,
        << Field(n_Name, s_name, s_name, TString, <<Required>>),
           Field(n_Age, s_age, s_age, TInt, <<Min(1, "1")>>),
           Field(n_Nick, s_nick \o s_omitempty, s_nick \o s_omitempty,
                 PtrTo(TString), <<>>) >>)

ShapeOpt ==
    StructOf(n_Opt,
        << Field(n_Count, s_count, s_count \o s_omitempty, PtrTo(TInt),
                 <<Required>>),
           Field(n_Active, s_active, s_active, TBool, <<>>),
           Field(n_IDs, s_ids, s_ids, SliceOf(TInt), <<>>) >>)

ShapeMisc ==
    StructOf(n_Misc,
        << Field(n_Ratio, s_ratio, s_ratio, TFloat64, <<>>),
           Field(n_Size, s_size, s_size, TUint, <<>>),
           Field(n_Tags, s_tags, s_tags, SliceOf(TString), <<>>) >>)

ShapeTagless ==
    StructOf(n_Tagless,
        << Field(n_NoTag, <<>>, <<>>, TString, <<Required>>),
           Field(n_Hidden, s_dash, s_dash, TString, <<>>),
           Field(n_Opts, s_omitempty, s_omitempty, TInt, <<>>) >>)

\* a record that takes attachments: one file, a list of files, and a number
ShapeUpload ==
    StructOf(n_Upload,
        << Field(n_Age, <<>>, s_age, TInt, <<>>),
           Field(n_Avatar, <<>>, s_avatar, TFile, <<>>),
           Field(n_Docs, <<>>, s_docs, SliceOf(TFile), <<>>) >>)

\* the nested request of the validation tests: a record, a list of records
\* and a list of strings the tag dives into, and a pointer to a record
StructMeta ==
    StructOf(n_Meta, << Field(n_Note, s_note, s_note, TString, <<Required>>) >>)

StructRoles ==
    StructOf(n_Roles,
        << Field(n_ID, s_id, s_id, TString, <<Required, Uuid>>),
           Field(n_Name, s_name, s_name, TString, <<Required>>) >>)

ShapeUser ==
    StructOf(n_UserRequest,
        << Field(n_Meta, s_meta, s_meta, StructMeta, <<>>),
           Field(n_Roles, s_roles, s_roles, SliceOf(StructRoles),
                 <<Required, Dive>>),
           Field(n_PermissionIDs, s_permissionIds, s_permission_ids,
                 SliceOf(TString), <<Required, Dive, Uuid>>),
           Field(n_Owner, s_owner, s_owner, PtrTo(StructMeta), <<>>) >>)

\* a record type with a field that carries the type's own name
ShapeComment ==
    StructOf(n_Comment,
        << Field(n_Comment, s_comment, s_comment, TString, <<Required>>) >>)

\* a record type with two fields under one external name
ShapePair ==
    StructOf(n_Pair,
        << Field(n_First, s_value, s_value, TString, <<Required>>),
           Field(n_Second, s_value, s_value, TString, <<Required>>) >>)

\* a record type with a list of lists of strings, none of which may be empty:
\* `validate:"dive,dive,required"`
ShapeGrid ==
    StructOf(n_Grid,
        << Field(n_Cells, s_cells, s_cells, SliceOf(SliceOf(TString)),
                 <<Dive, Dive, Required>>) >>)

Shapes ==
    <<ShapeReq, ShapeOpt, ShapeMisc, ShapeTagless, ShapeUpload,
      ShapeUser, ShapeComment, ShapePair, ShapeGrid>>

ShapeIds == 1..Len(Shapes)

\* the shapes JSON bodies are decoded into
JsonShapeIds == 1..4

\* the shapes forms are bound to
FormShapeIds == 1..5

----------------------------------------------------------------------------
(* values *)

RECURSIVE Zero(_)
\* the zero value of a type
Zero(t) ==
    CASE t.kind = "string" -> ""
      [] t.kind = "bool" -> FALSE
      [] t.kind = "ptr" -> <<>>
      [] t.kind = "file" -> <<>>
      [] t.kind = "slice" -> [nil |-> TRUE, elems |-> <<>>]
      [] t.kind = "struct" -> [i \in 1..Len(t.fields) |-> Zero(t.fields[i].type)]
      [] OTHER -> 0

RECURSIVE Filled(_)
\* a non-zero value of a type, for records that arrive populated
Filled(t) ==
    CASE t.kind = "string" -> "a"
      [] t.kind = "bool" -> TRUE
      [] t.kind = "ptr" -> <<Filled(t.elem)>>
      [] t.kind = "file" -> <<"old.png">>
      [] t.kind = "slice" -> [nil |-> FALSE, elems |-> <<Filled(t.elem)>>]
      [] t.kind = "struct" -> [i \in 1..Len(t.fields) |-> Filled(t.fields[i].type)]
      [] OTHER -> 1

\* the records of a shape: every field zero or filled
Records(t) ==
    { [i \in 1..Len(t.fields) |->
          IF i \in S THEN Filled(t.fields[i].type) ELSE Zero(t.fields[i].type)]
      : S \in SUBSET (1..Len(t.fields)) }

----------------------------------------------------------------------------
(* errors and field-error maps *)

Err(type, field, typ, got) ==
    [type |-> type, field |-> field, typ |-> typ, got |-> got]

NilErr == Err("nil", <<>>, "", "")
Err400InvalidBody == Err("Err400InvalidBody", <<>>, "", "")
Err400InvalidData == Err("Err400InvalidData", <<>>, "", "")

\* the failures of encoding/json's Decoder.Decode
SyntaxError == Err("SyntaxError", <<>>, "", "")
UnmarshalTypeError(field, typ) == Err("UnmarshalTypeError", field, typ, "")
UnknownFieldError(key) == Err("UnknownField", key, "", "")
InvalidUnmarshalError == Err("InvalidUnmarshalError", <<>>, "", "")
EOFError == Err("EOF", <<>>, "", "")
UnexpectedEOFError == Err("ErrUnexpectedEOF", <<>>, "", "")
ReadError == Err("ReadError", <<>>, "", "")

\* the failure of http.Request.ParseForm / ParseMultipartForm
ParseFormError == Err("ParseFormError", <<>>, "", "")

FormTypeError(field, expected, got) == Err("FormTypeError", field, expected, got)

\* the *strconv.NumError of ParseInt, ParseUint, ParseFloat and ParseBool
NumError(got) == Err("NumError", <<>>, "", got)

EmptyEntries == [k \in {} |-> <<>>]
NilMap == [nil |-> TRUE, m |-> EmptyEntries]
MakeMap(entries) == [nil |-> FALSE, m |-> entries]
SingleEntry(key, msg) == MakeMap([k \in {key} |-> <<msg>>])

\* validationErrors[key] = append(validationErrors[key], msg)
AppendMessage(entries, key, msg) ==
    [k \in (DOMAIN entries) \cup {key} |->
        IF k = key
        THEN (IF k \in DOMAIN entries THEN entries[k] ELSE <<>>) \o <<msg>>
        ELSE entries[k]]

\* what a call hands back: it panicked, or it returned (fieldErrors, err)
Returned(fieldErrors, err) ==
    [panic |-> FALSE, fieldErrors |-> fieldErrors, err |-> err]
Panicked == [panic |-> TRUE, fieldErrors |-> NilMap, err |-> NilErr]

----------------------------------------------------------------------------
(* the `input any` argument *)

\* kind: "nil" (untyped nil), "struct" (record by value), "ptr" (pointer to a
\* record), "nilptr" (nil pointer to a record), "scalar" (an int),
\* "ptrscalar" (pointer to an int).  shape and rec describe the record.
Input(kind, shape, rec) == [kind |-> kind, shape |-> shape, rec |-> rec]

IsRecord(input) == input.kind \in {"struct", "ptr"}

----------------------------------------------------------------------------
(* the constraint engine, validator.Validate.Struct *)

\* the one string of the model that is a UUID
GoodUUID == "d290f1ee-6c54-4b01-90e6-d701748f0851"

\* validator's hasValue: `required`
HasValue(t, v) ==
    CASE t.kind = "ptr" -> v # <<>>
      [] t.kind = "slice" -> ~v.nil
      [] OTHER -> v # Zero(t)

\* the size min and max compare: the number, or the length
SizeOf(t, v) ==
    CASE t.kind = "string" -> Len(v)
      [] t.kind = "slice" -> Len(v.elems)
      [] OTHER -> v

Fails(c, t, v) ==
    CASE c.tag = "required" -> ~HasValue(t, v)
      [] c.tag = "min" -> SizeOf(t, v) < c.n
      [] c.tag = "max" -> SizeOf(t, v) > c.n
      [] c.tag = "uuid" -> v # GoodUUID
      [] OTHER -> FALSE

DivePos(cs) ==
    IF \E i \in 1..Len(cs) : cs[i] = Dive
    THEN CHOOSE i \in 1..Len(cs) : cs[i] = Dive /\ \A j \in 1..(i - 1) : cs[j] # Dive
    ELSE 0

OwnConstraints(cs) == IF DivePos(cs) = 0 THEN cs ELSE SubSeq(cs, 1, DivePos(cs) - 1)

ElemConstraints(cs) ==
    IF DivePos(cs) = 0 THEN <<>> ELSE SubSeq(cs, DivePos(cs) + 1, Len(cs))

\* the constraints of cs that (t, v) fails, in declaration order
FailingOf(cs, t, v) == SelectSeq(cs, LAMBDA c : Fails(c, t, v))

FirstOf(q) == IF q = <<>> THEN <<>> ELSE <<q[1]>>

\* the engine reports at most one violation per field: the first failing
\* constraint; a nil pointer fails the first constraint declared
FieldViolation(f, v) ==
    LET cs == OwnConstraints(f.validate)
    IN  IF cs = <<>> THEN <<>>
        ELSE IF f.type.kind = "ptr"
             THEN IF v = <<>> THEN <<cs[1]>>
                  ELSE FirstOf(FailingOf(cs, f.type.elem, v[1]))
             ELSE FirstOf(FailingOf(cs, f.type, v))

\* a validator.FieldError: Tag(), Param() as tokens, StructNamespace()
FieldError(c, ns) == [tag |-> c.tag, param |-> c.param, ns |-> ns]

\* the decimal text of a slice index
IndexText(n) ==
    <<"[", <<"0", "1", "2", "3", "4", "5", "6", "7", "8", "9">>[n + 1], "]">>

RECURSIVE ViolationsFrom(_, _, _, _)
RECURSIVE ElemViolations(_, _, _, _)
RECURSIVE FieldViolations(_, _, _)

\* the violations of the fields i.. of a record of struct type t whose
\* namespace is ns, in field order
ViolationsFrom(t, rec, i, ns) ==
    IF i > Len(t.fields) THEN <<>>
    ELSE FieldViolations(t.fields[i], rec[i], ns \o <<".">> \o t.fields[i].name)
            \o ViolationsFrom(t, rec, i + 1, ns)

\* the violations of the elements k.. of a slice field the tag dives into:
\* each element is traversed as a field of its own, named by the field's
\* name and its index, under the constraints that follow `dive`; so a
\* record element is validated field by field, and an element that is a
\* slice is dived into when a second `dive` follows
ElemViolations(f, v, k, ns) ==
    IF k > Len(v.elems) THEN <<>>
    ELSE LET at == ns \o IndexText(k - 1)
             element == [f EXCEPT !.type = f.type.elem,
                                  !.validate = ElemConstraints(f.validate)]
         IN  FieldViolations(element, v.elems[k], at)
                \o ElemViolations(f, v, k + 1, ns)

\* the violations under one field: its own first failing constraint, or else
\* those of the record it holds (directly or behind a non-nil pointer), or
\* of the elements its tag dives into
FieldViolations(f, v, ns) ==
    LET cs == FieldViolation(f, v)
    IN  IF cs # <<>> THEN <<FieldError(cs[1], ns)>>
        ELSE IF f.type.kind = "struct" THEN ViolationsFrom(f.type, v, 1, ns)
        ELSE IF f.type.kind = "ptr" /\ f.type.elem.kind = "struct"
        THEN IF v = <<>> THEN <<>> ELSE ViolationsFrom(f.type.elem, v[1], 1, ns)
        ELSE IF f.type.kind = "slice" /\ DivePos(f.validate) # 0
        THEN ElemViolations(f, v, 1, ns)
        ELSE <<>>

\* validate.Struct(input): nil when no constraint fails, the violations in
\* field order, or InvalidValidationError for anything that is not a record
StructValidate(input) ==
    IF ~IsRecord(input)
    THEN [kind |-> "InvalidValidationError", list |-> <<>>]
    ELSE LET vs == ViolationsFrom(Shapes[input.shape], input.rec, 1,
                                  Shapes[input.shape].name)
         IN  IF vs = <<>> THEN [kind |-> "nil", list |-> <<>>]
             ELSE [kind |-> "ValidationErrors", list |-> vs]

----------------------------------------------------------------------------
(* message translator *)

\* the translator without its "email" case
getErrorMessage_NoEmailCase(fe) ==
    CASE fe.tag = "required" -> "field is required"
      [] fe.tag = "max" -> "maximum length is " \o JoinTokens(fe.param, " ")
      [] fe.tag = "min" -> "minimum value is " \o JoinTokens(fe.param, " ")
      [] fe.tag = "boolean" -> "field must be a boolean"
      [] fe.tag = "oneof" -> "field must be one of: " \o JoinTokens(fe.param, ", ")
      [] fe.tag = "uuid" -> "field must be a valid UUID"
      [] OTHER -> "field is invalid"

getErrorMessage(fe) ==
    CASE fe.tag = "required" -> "field is required"
      [] fe.tag = "email" -> "field must be a valid email address"
      [] fe.tag = "max" -> "maximum length is " \o JoinTokens(fe.param, " ")
      [] fe.tag = "min" -> "minimum value is " \o JoinTokens(fe.param, " ")
      [] fe.tag = "boolean" -> "field must be a boolean"
      [] fe.tag = "oneof" -> "field must be one of: " \o JoinTokens(fe.param, ", ")
      [] fe.tag = "uuid" -> "field must be a valid UUID"
      [] OTHER -> "field is invalid"

\* getErrorMessage as validation.go declares it, in both of the revisions the
\* file holds: five cases and the default
validation_getErrorMessage(fe) ==
    CASE fe.tag = "required" -> "field is required"
      [] fe.tag = "max" -> "maximum length is " \o JoinTokens(fe.param, " ")
      [] fe.tag = "min" -> "minimum value is " \o JoinTokens(fe.param, " ")
      [] fe.tag = "boolean" -> "field must be a boolean"
      [] fe.tag = "oneof" -> "field must be one of: " \o JoinTokens(fe.param, ", ")
      [] OTHER -> "field is invalid"

----------------------------------------------------------------------------
(* path resolver *)

\* strings.Index(s, ch): 0-based position of the first ch, -1 when absent
IndexOf(s, ch) ==
    IF \E i \in 1..Len(s) : s[i] = ch
    THEN (CHOOSE k \in 1..Len(s) : s[k] = ch /\ \A j \in 1..(k - 1) : s[j] # ch) - 1
    ELSE -1

RECURSIVE JoinChars(_, _)
\* strings.Join(parts, sep) over character sequences
JoinChars(parts, sep) ==
    IF parts = <<>> THEN <<>>
    ELSE IF Len(parts) = 1 THEN parts[1]
    ELSE parts[1] \o sep \o JoinChars(Tail(parts), sep)

\* the text of a tag before its first comma
TagName(tag) == Split(tag, ",")[1]

getJSONTagName(field) ==
    LET name == TagName(field.json)
    IN  IF name = <<>> \/ name = <<"-">> THEN field.name ELSE name

getFormTagName(field) ==
    LET name == TagName(field.form)
    IN  IF name = <<>> \/ name = <<"-">> THEN field.name ELSE name

\* reflect.Type.FieldByName on a struct type: the fields carrying that name
FieldByName(t, name) == SelectSeq(t.fields, LAMBDA f : f.name = name)

\* the descent without `if current.Kind() == reflect.Slice`
Descend_NoSliceElem(t, indexed) == IF t.kind = "ptr" THEN t.elem ELSE t

\* current = field.Type; if Slice then Elem (indexed segments only); if Ptr
\* then Elem
Descend(t, indexed) ==
    LET a == IF indexed /\ t.kind = "slice" THEN t.elem ELSE t
    IN  IF a.kind = "ptr" THEN a.elem ELSE a

\* the external name of a field under a wire format
ExternalName(field, wire) ==
    IF wire = "json" THEN getJSONTagName(field) ELSE getFormTagName(field)

RECURSIVE WalkPath(_, _, _, _)
\* the loop over the namespace's segments, the same in buildJSONPath and
\* buildFormPath but for the tag that names a field.
\* FieldByName panics on a type that is not a struct, and slicing
\* part[i+1 : j] panics when j < i+1.
WalkPath(parts, path, current, wire) ==
    IF parts = <<>> THEN [panic |-> FALSE, path |-> path]
    ELSE LET part == Head(parts)
             rest == Tail(parts)
             open == IndexOf(part, "[")
             close == IndexOf(part, "]")
         IN  IF part = <<>> THEN WalkPath(rest, path, current, wire)
             ELSE IF open >= 0
             THEN IF close < open + 1 \/ current.kind # "struct"
                  THEN [panic |-> TRUE, path |-> path]
                  ELSE LET name == SubSeq(part, 1, open)
                           index == SubSeq(part, open + 2, close)
                           found == FieldByName(current, name)
                       IN  IF found = <<>>
                           THEN WalkPath(rest, path, current, wire)
                           ELSE WalkPath(rest,
                                    Append(path, ExternalName(found[1], wire) \o <<".">> \o index),
                                    Descend(found[1].type, TRUE), wire)
             ELSE IF current.kind # "struct"
                  THEN [panic |-> TRUE, path |-> path]
                  ELSE LET found == FieldByName(current, part)
                       IN  IF found = <<>>
                           THEN WalkPath(rest, path, current, wire)
                           ELSE WalkPath(rest, Append(path, ExternalName(found[1], wire)),
                                    Descend(found[1].type, FALSE), wire)

buildJSONPath(root, fe) ==
    LET w == WalkPath(Split(fe.ns, "."), <<>>, root, "json")
    IN  [panic |-> w.panic, path |-> JoinChars(w.path, <<".">>)]

buildFormPath(root, fe) ==
    LET w == WalkPath(Split(fe.ns, "."), <<>>, root, "form")
    IN  [panic |-> w.panic, path |-> JoinChars(w.path, <<".">>)]

----------------------------------------------------------------------------
(* constraint validation pass *)

\* the Outcome of the call the caller made: what a later call finds returned
VARIABLE res

RECURSIVE CollectErrors(_, _, _, _)
\* the loop of Validate / ValidateForm over the engine's violations
CollectErrors(list, entries, root, wire) ==
    IF list = <<>> THEN [panic |-> FALSE, entries |-> entries]
    ELSE LET p == IF wire = "json" THEN buildJSONPath(root, Head(list))
                  ELSE buildFormPath(root, Head(list))
         IN  IF p.panic THEN [panic |-> TRUE, entries |-> entries]
             ELSE CollectErrors(Tail(list),
                      AppendMessage(entries, p.path, getErrorMessage(Head(list))),
                      root, wire)

\* ValidateWith with `return validationErrors, nil` on the no-violation path:
\* the map is made before the engine's answer is looked at
ValidateWith_EmptyMap(input, wire) ==
    LET e == StructValidate(input)
    IN  IF e.kind = "nil" THEN Returned(MakeMap(EmptyEntries), NilErr)
        ELSE IF input.kind = "nil" THEN Panicked
        ELSE IF e.kind # "ValidationErrors" THEN Panicked
        ELSE LET c == CollectErrors(e.list, EmptyEntries,
                                    Shapes[input.shape], wire)
             IN  IF c.panic THEN Panicked
                 ELSE Returned(MakeMap(c.entries), Err400InvalidData)

\* ValidateWith with validationErrors kept at package level: the map the
\* previous call returned is appended to
ValidateWith_SharedMap(input, wire) ==
    LET e == StructValidate(input)
    IN  IF e.kind = "nil" THEN Returned(NilMap, NilErr)
        ELSE IF input.kind = "nil" THEN Panicked
        ELSE IF e.kind # "ValidationErrors" THEN Panicked
        ELSE LET c == CollectErrors(e.list, res.out.fieldErrors.m,
                                    Shapes[input.shape], wire)
             IN  IF c.panic THEN Panicked
                 ELSE Returned(MakeMap(c.entries), Err400InvalidData)

\* the body shared by Validate and ValidateForm.  With a non-nil engine
\* error: reflect.TypeOf(nil).Kind() panics on the nil Type, and
\* err.(validator.ValidationErrors) panics on an InvalidValidationError.
ValidateWith(input, wire) ==
    LET e == StructValidate(input)
    IN  IF e.kind = "nil" THEN Returned(NilMap, NilErr)
        ELSE IF input.kind = "nil" THEN Panicked
        ELSE IF e.kind # "ValidationErrors" THEN Panicked
        ELSE LET c == CollectErrors(e.list, EmptyEntries,
                                    Shapes[input.shape], wire)
             IN  IF c.panic THEN Panicked
                 ELSE Returned(MakeMap(c.entries), Err400InvalidData)

Validate(input) == ValidateWith(input, "json")

ValidateForm(input) == ValidateWith(input, "form")

----------------------------------------------------------------------------
(* JSON bodies and encoding/json's strict decoder *)

\* a JSON value: a string, a number, a boolean or null
JStr(x) == [t |-> "string", s |-> x, n |-> 0, b |-> FALSE]
JNum(x) == [t |-> "number", s |-> "", n |-> x, b |-> FALSE]
JBool(x) == [t |-> "bool", s |-> "", n |-> 0, b |-> x]
JNull == [t |-> "null", s |-> "", n |-> 0, b |-> FALSE]

JValues == {JStr("a"), JNum(1), JBool(TRUE), JNull}

\* a request body.  kind: "nilBody" (r.Body == nil), "readError" (the reader
\* fails), "empty" (zero bytes), "truncated" (input ends inside a value),
\* "syntax" (malformed text), "null", "scalar" (a top-level number) or
\* "object" with its members in order
Body(kind, members) == [kind |-> kind, members |-> members]
NoBody == Body("none", <<>>)

\* the key encoding/json gives a field: none for the tag "-", the tag's name,
\* or the Go name when the tag names nothing
EncodingKey(f) ==
    IF f.json = <<"-">> THEN <<>>
    ELSE IF TagName(f.json) = <<>> THEN <<f.name>> ELSE <<TagName(f.json)>>

\* the keys a body may carry for a shape: its fields' keys and an undeclared one
BodyKeys(t) ==
    {EncodingKey(t.fields[i])[1] :
        i \in {k \in 1..Len(t.fields) : EncodingKey(t.fields[k]) # <<>>}}
    \cup {s_extra}

RECURSIVE SeqsUpTo(_, _)
\* the sequences over S of length at most n
SeqsUpTo(S, n) ==
    IF n = 0 THEN {<<>>}
    ELSE LET shorter == SeqsUpTo(S, n - 1)
         IN  shorter \cup {Append(q, x) : q \in shorter, x \in S}

Bodies(t) ==
    {Body(k, <<>>) : k \in {"nilBody", "readError", "empty", "truncated",
                            "syntax", "null", "scalar"}}
    \cup {Body("object", ms) :
            ms \in SeqsUpTo([key : BodyKeys(t), val : JValues], MaxMembers)}

RECURSIVE DecodeValue(_, _, _)
\* decode one JSON value into a value of type t holding old: the new value
\* and, on a mismatch, the name of the type the decoder was filling.  null
\* clears a pointer or slice and leaves anything else alone; a pointer is
\* allocated before its target is decoded.
DecodeValue(t, v, old) ==
    IF v.t = "null"
    THEN [ok |-> TRUE, typ |-> "",
          val |-> IF t.kind \in {"ptr", "slice"} THEN Zero(t) ELSE old]
    ELSE CASE t.kind = "ptr" ->
                LET inner == DecodeValue(t.elem, v,
                                 IF old = <<>> THEN Zero(t.elem) ELSE old[1])
                IN  [ok |-> inner.ok, typ |-> inner.typ, val |-> <<inner.val>>]
           [] t.kind = "string" /\ v.t = "string" ->
                [ok |-> TRUE, typ |-> "", val |-> v.s]
           [] t.kind \in {"int", "float64"} /\ v.t = "number" ->
                [ok |-> TRUE, typ |-> "", val |-> v.n]
           [] t.kind = "uint" /\ v.t = "number" /\ v.n >= 0 ->
                [ok |-> TRUE, typ |-> "", val |-> v.n]
           [] t.kind = "bool" /\ v.t = "bool" ->
                [ok |-> TRUE, typ |-> "", val |-> v.b]
           [] OTHER ->
                [ok |-> FALSE, typ |-> TypeString(t), val |-> old]

\* the positions of the fields a key decodes into
FieldsOfKey(t, key) ==
    {i \in 1..Len(t.fields) : EncodingKey(t.fields[i]) = <<key>>}

RECURSIVE DecodeMembers(_, _, _, _)
\* the decoder's loop over an object's members.  An undeclared key
\* (DisallowUnknownFields) and a type mismatch are saved, the first one
\* wins, and decoding goes on with the next member.
DecodeMembers(t, members, rec, err) ==
    IF members = <<>> THEN [err |-> err, rec |-> rec]
    ELSE LET m == Head(members)
             hit == FieldsOfKey(t, m.key)
         IN  IF hit = {}
             THEN DecodeMembers(t, Tail(members), rec,
                      IF err = NilErr THEN UnknownFieldError(m.key) ELSE err)
             ELSE LET i == CHOOSE k \in hit : TRUE
                      d == DecodeValue(t.fields[i].type, m.val, rec[i])
                  IN  DecodeMembers(t, Tail(members),
                          [rec EXCEPT ![i] = d.val],
                          IF err = NilErr /\ ~d.ok
                          THEN UnmarshalTypeError(m.key, d.typ) ELSE err)

\* decoder.Decode(input): the value is read whole first (read failures, end
\* of input, syntax), then the target is checked, then the value is stored
Decode(body, input) ==
    CASE body.kind = "readError" -> [err |-> ReadError, rec |-> input.rec]
      [] body.kind = "empty" -> [err |-> EOFError, rec |-> input.rec]
      [] body.kind = "truncated" -> [err |-> UnexpectedEOFError, rec |-> input.rec]
      [] body.kind = "syntax" -> [err |-> SyntaxError, rec |-> input.rec]
      [] OTHER ->
           IF input.kind \notin {"ptr", "ptrscalar"}
           THEN [err |-> InvalidUnmarshalError, rec |-> input.rec]
           ELSE IF body.kind = "null"
           THEN [err |-> NilErr, rec |-> input.rec]
           ELSE IF input.kind = "ptrscalar"
           THEN [err |-> IF body.kind = "scalar" THEN NilErr
                         ELSE UnmarshalTypeError(<<>>, "int"),
                 rec |-> input.rec]
           ELSE IF body.kind = "scalar"
           THEN [err |-> UnmarshalTypeError(<<>>, TypeString(Shapes[input.shape])),
                 rec |-> input.rec]
           ELSE DecodeMembers(Shapes[input.shape], body.members, input.rec, NilErr)

BindJSON(body, input) ==
    IF body.kind = "nilBody"
    THEN [err |-> Err400InvalidBody, rec |-> input.rec]
    ELSE Decode(body, input)

\* getJsonErrorMessage without its *json.SyntaxError case
getJsonErrorMessage_NoSyntaxCase(err) ==
    CASE err.type = "UnmarshalTypeError" /\ err.field # <<>> ->
           Returned(SingleEntry(err.field, "invalid type, expected " \o err.typ),
               Err400InvalidData)
      [] OTHER -> Returned(NilMap, NilErr)

\* getJsonErrorMessage keying a type mismatch like a syntax error
getJsonErrorMessage_TypeUnderJson(err) ==
    CASE err.type = "SyntaxError" ->
           Returned(SingleEntry(s_json,
               "invalid JSON format: please check for missing commas, braces, or quotes"),
               Err400InvalidBody)
      [] err.type = "UnmarshalTypeError" /\ err.field # <<>> ->
           Returned(SingleEntry(s_json, "invalid type, expected " \o err.typ),
               Err400InvalidData)
      [] OTHER -> Returned(NilMap, NilErr)

getJsonErrorMessage(err) ==
    CASE err.type = "SyntaxError" ->
           Returned(SingleEntry(s_json,
               "invalid JSON format: please check for missing commas, braces, or quotes"),
               Err400InvalidBody)
      [] err.type = "UnmarshalTypeError" /\ err.field # <<>> ->
           Returned(SingleEntry(err.field, "invalid type, expected " \o err.typ),
               Err400InvalidData)
      [] OTHER -> Returned(NilMap, NilErr)

\* the call's outcome with what it did on the way: the error of the bind
\* step, the record after it, and whether the constraint engine ran
Outcome(out, rec, bindErr, validated) ==
    [out |-> out, rec |-> rec, bindErr |-> bindErr, validated |-> validated]

\* BindAndValidateJSON returning a bind error it could not convert
BindAndValidateJSON_Propagate(body, input) ==
    LET b == BindJSON(body, input)
        g == getJsonErrorMessage(b.err)
    IN  IF b.err # NilErr
        THEN Outcome(IF g.err # NilErr THEN g ELSE Returned(NilMap, b.err),
                     b.rec, b.err, FALSE)
        ELSE Outcome(Validate([input EXCEPT !.rec = b.rec]), b.rec, b.err, TRUE)

BindAndValidateJSON(body, input) ==
    LET b == BindJSON(body, input)
        g == getJsonErrorMessage(b.err)
    IN  IF b.err # NilErr /\ g.err # NilErr
        THEN Outcome(g, b.rec, b.err, FALSE)
        ELSE Outcome(Validate([input EXCEPT !.rec = b.rec]), b.rec, b.err, TRUE)

----------------------------------------------------------------------------
(* form requests and form binding *)

\* the raw values a form submits
RawValues == {"", "1", "-1", "x"}

\* strconv.ParseInt(value, 10, 64), ParseUint(value, 10, 64),
\* ParseFloat(value, 64) and ParseBool(value) on the raw values
ParseInt(value) ==
    CASE value = "1" -> [ok |-> TRUE, val |-> 1]
      [] value = "-1" -> [ok |-> TRUE, val |-> -1]
      [] OTHER -> [ok |-> FALSE, val |-> 0]

ParseUint(value) ==
    CASE value = "1" -> [ok |-> TRUE, val |-> 1]
      [] OTHER -> [ok |-> FALSE, val |-> 0]

ParseFloat(value) ==
    CASE value = "1" -> [ok |-> TRUE, val |-> 1]
      [] value = "-1" -> [ok |-> TRUE, val |-> -1]
      [] OTHER -> [ok |-> FALSE, val |-> 0]

ParseBool(value) ==
    CASE value = "1" -> [ok |-> TRUE, val |-> TRUE]
      [] OTHER -> [ok |-> FALSE, val |-> FALSE]

\* a parsed request: whether ParseForm / ParseMultipartForm succeeded, r.Form,
\* whether the content type is multipart/form-data, and r.MultipartForm.File
Form(parseOk, values, multipart, files) ==
    [parseOk |-> parseOk, values |-> values, multipart |-> multipart,
     files |-> files]
NoValues == [k \in {} |-> <<>>]
NoForm == Form(FALSE, NoValues, FALSE, NoValues)

\* the *multipart.Form handed to bindFormValues: nil unless the request is
\* multipart
MultipartForm(form) ==
    IF form.multipart THEN [nil |-> FALSE, File |-> form.files]
    ELSE [nil |-> TRUE, File |-> NoValues]

\* multipartForm.File[formKey]: a missing key reads as the nil list
FilesUnder(multipartForm, formKey) ==
    IF formKey \in DOMAIN multipartForm.File THEN multipartForm.File[formKey]
    ELSE <<>>

isFileField(t) == t = TFile \/ t = SliceOf(TFile)

\* the tag test of bindFormValues without its `formTag == "-"` half
IsBound_NoDashSkip(f) == f.form # <<>>

\* binding reads a field when its form tag is neither empty nor "-"
IsBound(f) == f.form # <<>> /\ f.form # <<"-">>

\* formKey := strings.Split(formTag, ",")[0]
FormKey(f) == TagName(f.form)

\* the keys a form may carry for a shape: the keys binding looks up, and the
\* Go names of the fields it skips
FormKeys(t) ==
    {IF IsBound(t.fields[i]) THEN FormKey(t.fields[i]) ELSE t.fields[i].name :
        i \in 1..Len(t.fields)}

RECURSIVE ValuesOver(_, _)
\* the key/value lists over keys that carry at most budget values in all;
\* a key that is present carries at least one value
ValuesOver(keys, budget) ==
    IF keys = {} \/ budget = 0 THEN {NoValues}
    ELSE LET k == CHOOSE x \in keys : TRUE
             without == ValuesOver(keys \ {k}, budget)
             with == UNION { {(k :> vs) @@ rest :
                                rest \in ValuesOver(keys \ {k}, budget - Len(vs))} :
                             vs \in SeqsUpTo(RawValues, budget) \ {<<>>} }
         IN  without \cup with

\* the attachments a multipart request may carry, each a non-nil
\* *multipart.FileHeader
Attachments == {<<"a.png">>, <<"b.png">>}

\* the names attachments are submitted under for a shape: the form names of
\* its file fields, and a name no field has
FileKeys(t) ==
    {FormKey(t.fields[i]) :
        i \in {j \in 1..Len(t.fields) : isFileField(t.fields[j].type)}}
    \cup {s_other}

RECURSIVE FilesOver(_, _)
\* the attachment lists over keys that carry at most budget attachments in
\* all; a key that is present carries at least one
FilesOver(keys, budget) ==
    IF keys = {} \/ budget = 0 THEN {NoValues}
    ELSE LET k == CHOOSE x \in keys : TRUE
             without == FilesOver(keys \ {k}, budget)
             with == UNION { {(k :> fs) @@ rest :
                                rest \in FilesOver(keys \ {k}, budget - Len(fs))} :
                             fs \in SeqsUpTo(Attachments, budget) \ {<<>>} }
         IN  without \cup with

HasFileField(t) == \E i \in 1..Len(t.fields) : isFileField(t.fields[i].type)

\* the requests a shape is bound from: one that fails to parse, url-encoded
\* ones, and multipart ones for a shape that takes attachments
Forms(t) ==
    {NoForm}
    \cup (IF HasFileField(t)
          THEN {Form(TRUE, vs, mp, IF mp THEN fs ELSE NoValues) :
                   vs \in ValuesOver(FormKeys(t), MaxMixed),
                   mp \in BOOLEAN,
                   fs \in FilesOver(FileKeys(t), MaxFiles)}
          ELSE {Form(TRUE, vs, FALSE, NoValues) :
                   vs \in ValuesOver(FormKeys(t), MaxSubmitted)})

\* the outcome of a setter: its error and the value the field then holds
Set(err, val) == [err |-> err, val |-> val]

\* setScalarValue without the `value == ""` guard of the integer case
setScalarValue_NoEmptyGuard(t, old, value) ==
    CASE t.kind = "string" -> Set(NilErr, value)
      [] t.kind = "int" ->
           IF ~ParseInt(value).ok THEN Set(NumError(value), old)
           ELSE Set(NilErr, ParseInt(value).val)
      [] t.kind = "uint" ->
           IF value = "" THEN Set(NilErr, old)
           ELSE IF ~ParseUint(value).ok THEN Set(NumError(value), old)
           ELSE Set(NilErr, ParseUint(value).val)
      [] t.kind = "float64" ->
           IF value = "" THEN Set(NilErr, old)
           ELSE IF ~ParseFloat(value).ok THEN Set(NumError(value), old)
           ELSE Set(NilErr, ParseFloat(value).val)
      [] t.kind = "bool" ->
           IF value = "" THEN Set(NilErr, old)
           ELSE IF ~ParseBool(value).ok THEN Set(NumError(value), old)
           ELSE Set(NilErr, ParseBool(value).val)
      [] OTHER -> Set(FormTypeError(<<>>, TypeString(t), value), old)

setScalarValue(t, old, value) ==
    CASE t.kind = "string" -> Set(NilErr, value)
      [] t.kind = "int" ->
           IF value = "" THEN Set(NilErr, old)
           ELSE IF ~ParseInt(value).ok THEN Set(NumError(value), old)
           ELSE Set(NilErr, ParseInt(value).val)
      [] t.kind = "uint" ->
           IF value = "" THEN Set(NilErr, old)
           ELSE IF ~ParseUint(value).ok THEN Set(NumError(value), old)
           ELSE Set(NilErr, ParseUint(value).val)
      [] t.kind = "float64" ->
           IF value = "" THEN Set(NilErr, old)
           ELSE IF ~ParseFloat(value).ok THEN Set(NumError(value), old)
           ELSE Set(NilErr, ParseFloat(value).val)
      [] t.kind = "bool" ->
           IF value = "" THEN Set(NilErr, old)
           ELSE IF ~ParseBool(value).ok THEN Set(NumError(value), old)
           ELSE Set(NilErr, ParseBool(value).val)
      [] OTHER -> Set(FormTypeError(<<>>, TypeString(t), value), old)

\* the loop ending after its first element
SetElements_FirstOnly(elem, values, done) ==
    IF values = <<>> THEN Set(NilErr, done)
    ELSE LET r == setScalarValue(elem, Zero(elem), Head(values))
         IN  IF r.err # NilErr THEN Set(r.err, done)
             ELSE Set(NilErr, Append(done, r.val))

RECURSIVE SetElements(_, _, _)
\* the loop of setFieldValue over a non-string slice: each element starts at
\* its zero value; the first failure ends the loop
SetElements(elem, values, done) ==
    IF values = <<>> THEN Set(NilErr, done)
    ELSE LET r == setScalarValue(elem, Zero(elem), Head(values))
         IN  IF r.err # NilErr THEN Set(r.err, done)
             ELSE SetElements(elem, Tail(values), Append(done, r.val))

RECURSIVE setFieldValue(_, _, _)
setFieldValue(t, old, values) ==
    CASE t.kind = "ptr" ->
           IF values[1] = "" THEN Set(NilErr, old)
           ELSE LET r == setFieldValue(t.elem, Zero(t.elem), values)
                IN  IF r.err # NilErr THEN Set(r.err, old)
                    ELSE Set(NilErr, <<r.val>>)
      [] t.kind = "slice" ->
           IF t.elem.kind = "string"
           THEN Set(NilErr, [nil |-> FALSE, elems |-> values])
           ELSE LET r == SetElements(t.elem, values, <<>>)
                IN  IF r.err # NilErr THEN Set(r.err, old)
                    ELSE Set(NilErr, [nil |-> FALSE, elems |-> r.val])
      [] OTHER -> setScalarValue(t, old, values[1])

\* setFileFieldValue without its `len(files) == 0` return for a file list
setFileFieldValue_NoLenGuard(t, old, files) ==
    CASE t = SliceOf(TFile) -> [nil |-> FALSE, elems |-> files]
      [] files = <<>> -> old
      [] t = TFile -> files[1]
      [] OTHER -> old

\* the value a file field holds after setFileFieldValue; it never fails
setFileFieldValue(t, old, files) ==
    CASE files = <<>> -> old
      [] t = TFile -> files[1]
      [] t = SliceOf(TFile) -> [nil |-> FALSE, elems |-> files]
      [] OTHER -> old

RECURSIVE BindFields(_, _, _, _, _)
\* the loop of bindFormValues over the record's fields
BindFields(t, values, multipartForm, rec, i) ==
    IF i > Len(t.fields) THEN [err |-> NilErr, rec |-> rec]
    ELSE LET f == t.fields[i]
             formKey == FormKey(f)
         IN  IF ~IsBound(f)
             THEN BindFields(t, values, multipartForm, rec, i + 1)
             ELSE IF isFileField(f.type)
             THEN BindFields(t, values, multipartForm,
                      IF multipartForm.nil THEN rec
                      ELSE [rec EXCEPT ![i] =
                               setFileFieldValue(f.type, rec[i],
                                   FilesUnder(multipartForm, formKey))],
                      i + 1)
             ELSE IF formKey \notin DOMAIN values
             THEN BindFields(t, values, multipartForm, rec, i + 1)
             ELSE LET r == setFieldValue(f.type, rec[i], values[formKey])
                  IN  IF r.err # NilErr
                      THEN [err |-> FormTypeError(formKey, TypeString(f.type),
                                                  values[formKey][1]),
                            rec |-> rec]
                      ELSE BindFields(t, values, multipartForm,
                               [rec EXCEPT ![i] = r.val], i + 1)

\* bindFormValues undoing its assignments when a field fails
bindFormValues_Rollback(values, multipartForm, input) ==
    IF input.kind # "ptr"
    THEN [err |-> Err400InvalidBody, rec |-> input.rec]
    ELSE LET b == BindFields(Shapes[input.shape], values, multipartForm,
                             input.rec, 1)
         IN  IF b.err # NilErr THEN [err |-> b.err, rec |-> input.rec] ELSE b

\* a target that is not a non-nil pointer to a record is refused
bindFormValues(values, multipartForm, input) ==
    IF input.kind # "ptr"
    THEN [err |-> Err400InvalidBody, rec |-> input.rec]
    ELSE BindFields(Shapes[input.shape], values, multipartForm, input.rec, 1)

BindForm(form, input) ==
    IF ~form.parseOk THEN [err |-> ParseFormError, rec |-> input.rec]
    ELSE bindFormValues(form.values, MultipartForm(form), input)

\* getFormErrorMessage naming the submitted value instead of the type
getFormErrorMessage_Got(err) ==
    CASE err.type = "FormTypeError" ->
           Returned(SingleEntry(err.field, "invalid type, expected " \o err.got),
               Err400InvalidData)
      [] err.type = "SyntaxError" ->
           Returned(SingleEntry(s_form, "invalid form data format"),
               Err400InvalidBody)
      [] OTHER -> Returned(NilMap, NilErr)

getFormErrorMessage(err) ==
    CASE err.type = "FormTypeError" ->
           Returned(SingleEntry(err.field, "invalid type, expected " \o err.typ),
               Err400InvalidData)
      [] err.type = "SyntaxError" ->
           Returned(SingleEntry(s_form, "invalid form data format"),
               Err400InvalidBody)
      [] OTHER -> Returned(NilMap, NilErr)

\* BindAndValidateForm returning the converted map without its error
BindAndValidateForm_MapOnly(form, input) ==
    LET b == BindForm(form, input)
        g == getFormErrorMessage(b.err)
    IN  IF b.err # NilErr /\ g.err # NilErr
        THEN Outcome(Returned(g.fieldErrors, NilErr), b.rec, b.err, FALSE)
        ELSE Outcome(ValidateForm([input EXCEPT !.rec = b.rec]), b.rec, b.err, TRUE)

BindAndValidateForm(form, input) ==
    LET b == BindForm(form, input)
        g == getFormErrorMessage(b.err)
    IN  IF b.err # NilErr /\ g.err # NilErr
        THEN Outcome(g, b.rec, b.err, FALSE)
        ELSE Outcome(ValidateForm([input EXCEPT !.rec = b.rec]), b.rec, b.err, TRUE)

----------------------------------------------------------------------------
(* queryutil.CalculateTotalPage *)

\* Go's / and % on int truncate toward zero; both are applied here to a
\* dividend >= 0 and a divisor > 0 only, where they agree with \div and %.
\* The quotient is at most totalData, and it equals totalData only when the
\* remainder is 0, so totalPage++ never leaves the range of int.
CalculateTotalPage_NoRoundUp(totalData, perPage) ==
    IF totalData < 0 \/ perPage <= 0
    THEN 0
    ELSE totalData \div perPage

CalculateTotalPage(totalData, perPage) ==
    IF totalData < 0 \/ perPage <= 0
    THEN 0
    ELSE LET totalPage == totalData \div perPage
         IN  IF totalData % perPage > 0 THEN totalPage + 1 ELSE totalPage

----------------------------------------------------------------------------
(* the calls *)

VARIABLES
    pc,        \* "ready": the arguments are chosen; "returned": the call is
               \* over; "repeated": the call was made a second time
    op,        \* the function that was called
    request,   \* what the caller holds: "none", a "json" body, a "form", or
               \* a "violation" of the engine
    input,     \* the `input any` argument as passed
    body,      \* the JSON body of r
    form,      \* the parsed form of r
    violation, \* the validator.FieldError handed to getErrorMessage
    res2,      \* the Outcome of the second call on the same input
    message        \* the message getErrorMessage returned

callVars ==
    <<pc, op, request, input, body, form, violation, res, res2, message>>

\* calls that run at the same time, each on a goroutine of its own
VARIABLES
    calls,     \* per call: wire format, request, target address, and the
               \* record the target held when the call began
    heap,      \* the records the targets point to, by address
    cpc,       \* per call: "start", "bound" (decoded, not yet validated),
               \* "done"
    outs,      \* per call: what it returned
    cached     \* the record types whose metadata the package-level
               \* validator has cached

concVars == <<calls, heap, cpc, outs, cached>>

\* asyncutil.SafeGo: one caller, the goroutine it starts, and the channel
VARIABLES
    fn,        \* what the function handed to SafeGo does
    OnPanic,   \* the package-level handler: "nil", "returns" or "panics"
    wants,     \* whether the caller ever receives from the channel
    caller,    \* "before" the call of SafeGo, "holding" the channel, or
               \* "received"
    gpc,       \* where the goroutine is; "none" before it starts
    inflight,  \* what the goroutine holds: the Result to send, or the
               \* recovered panic value
    ch,        \* the buffer of the channel, of capacity one
    handled,   \* the errors OnPanic was called with, in order
    received   \* the Result the caller received

goVars == <<fn, OnPanic, wants, caller, gpc, inflight, ch, handled, received>>

\* queryutil.CalculateTotalPage: the arguments and the value returned
VARIABLES
    rows,      \* the totalData argument
    size,      \* the perPage argument
    pages      \* <<>> before the call, <<n>> once it returned n

pageVars == <<rows, size, pages>>

vars == <<callVars, concVars, goVars, pageVars>>


ZeroRecord(sh) == Zero(Shapes[sh])
FilledRecord(sh) == Filled(Shapes[sh])

\* arguments that are not a record or a pointer to one
OtherInputs(sh) ==
    {Input(k, sh, ZeroRecord(sh)) : k \in {"nil", "nilptr", "scalar", "ptrscalar"}}

\* a slice over S: nil, or up to n elements
Slices(S, n) ==
    {[nil |-> TRUE, elems |-> <<>>]}
    \cup {[nil |-> FALSE, elems |-> q] : q \in SeqsUpTo(S, n)}

\* the nested requests: notes and names empty or not, identifiers that are
\* a UUID or not
UserRecords ==
    {<<meta, roles, ids, owner>> :
        meta \in {<<"">>, <<"a">>},
        roles \in Slices({<<id, nm>> : id \in {"a", GoodUUID}, nm \in {"", "a"}},
                         MaxElems),
        ids \in Slices({"a", GoodUUID}, MaxElems),
        owner \in {<<>>, <<<<"">>>>, <<<<"a">>>>}}

\* the grids: rows of cells that are empty or not
GridRecords ==
    {<<cells>> : cells \in Slices(Slices({"", "a"}, MaxCols), MaxRows)}

RecordsOf(sh) ==
    CASE Shapes[sh] = ShapeUser -> UserRecords
      [] Shapes[sh] = ShapeGrid -> GridRecords
      [] OTHER -> Records(Shapes[sh])

\* the arguments of a call that only validates
ValidateInputs(sh) ==
    {Input(k, sh, r) : k \in {"struct", "ptr"}, r \in RecordsOf(sh)}
    \cup OtherInputs(sh)

\* the arguments of a call that binds a request: a fresh or a populated
\* record behind a pointer, a record by value, or no record at all
BindInputs(sh) ==
    {Input("ptr", sh, ZeroRecord(sh)), Input("ptr", sh, FilledRecord(sh)),
     Input("struct", sh, ZeroRecord(sh))}
    \cup OtherInputs(sh)

NoOutcome == Outcome(Returned(NilMap, NilErr), <<>>, NilErr, FALSE)

\* the violations handed to the message translator: the seven kinds it
\* names and three it does not, with no parameter, one token, two tokens, and
\* tokens two spaces apart
Violations ==
    {FieldError(Constraint(tag, param, 0), n_Req \o <<".">> \o n_Name) :
        tag \in {"required", "email", "max", "min", "boolean", "oneof", "uuid",
                 "len", "gte", "numeric"},
        param \in {<<>>, <<"5">>, <<"admin", "user">>, <<"a", "", "b">>}}

NoViolation == FieldError(Constraint("", <<>>, 0), <<>>)

InitCalls ==
    /\ pc = "ready"
    /\ op = "none"
    /\ res = NoOutcome
    /\ res2 = NoOutcome
    /\ message = ""
    /\ \/ /\ request = "none"
          /\ \E sh \in ShapeIds : input \in ValidateInputs(sh)
          /\ body = NoBody
          /\ form = NoForm
          /\ violation = NoViolation
       \/ /\ request = "json"
          /\ \E sh \in JsonShapeIds : input \in BindInputs(sh)
          /\ body \in Bodies(Shapes[input.shape])
          /\ form = NoForm
          /\ violation = NoViolation
       \/ /\ request = "form"
          /\ \E sh \in FormShapeIds : input \in BindInputs(sh)
          /\ body = NoBody
          /\ form \in Forms(Shapes[input.shape])
          /\ violation = NoViolation
       \/ /\ request = "violation"
          /\ input = Input("nil", 1, <<>>)
          /\ body = NoBody
          /\ form = NoForm
          /\ violation \in Violations

\* no call is running concurrently
IdleConc ==
    /\ calls = <<>>
    /\ heap = <<>>
    /\ cpc = <<>>
    /\ outs = <<>>
    /\ cached = {}

\* SafeGo is not in use
IdleGo ==
    /\ fn = <<>>
    /\ OnPanic = "nil"
    /\ wants = FALSE
    /\ caller = "off"
    /\ gpc = "none"
    /\ inflight = <<>>
    /\ ch = <<>>
    /\ handled = <<>>
    /\ received = <<>>

\* CalculateTotalPage is not in use
IdlePage ==
    /\ rows = 0
    /\ size = 0
    /\ pages = <<>>

Init == InitCalls /\ IdleConc /\ IdleGo /\ IdlePage

Return(name, outcome) ==
    /\ pc' = "returned"
    /\ op' = name
    /\ res' = outcome
    /\ UNCHANGED <<request, input, body, form, violation, res2, message>>
    /\ UNCHANGED <<concVars, goVars, pageVars>>

CallValidate ==
    /\ pc = "ready"
    /\ request = "none"
    /\ Return("Validate", Outcome(Validate(input), input.rec, NilErr, TRUE))

CallValidateForm ==
    /\ pc = "ready"
    /\ request = "none"
    /\ Return("ValidateForm", Outcome(ValidateForm(input), input.rec, NilErr, TRUE))

CallBindJSON ==
    /\ pc = "ready"
    /\ request = "json"
    /\ LET b == BindJSON(body, input)
       IN  Return("BindJSON", Outcome(Returned(NilMap, b.err), b.rec, b.err, FALSE))

CallBindAndValidateJSON ==
    /\ pc = "ready"
    /\ request = "json"
    /\ Return("BindAndValidateJSON", BindAndValidateJSON(body, input))

CallBindForm ==
    /\ pc = "ready"
    /\ request = "form"
    /\ LET b == BindForm(form, input)
       IN  Return("BindForm", Outcome(Returned(NilMap, b.err), b.rec, b.err, FALSE))

CallBindAndValidateForm ==
    /\ pc = "ready"
    /\ request = "form"
    /\ Return("BindAndValidateForm", BindAndValidateForm(form, input))

\* the message translator applied to one violation of the engine
CallGetErrorMessage ==
    /\ pc = "ready"
    /\ request = "violation"
    /\ pc' = "returned"
    /\ op' = "getErrorMessage"
    /\ message' = getErrorMessage(violation)
    /\ UNCHANGED <<request, input, body, form, violation, res, res2>>
    /\ UNCHANGED <<concVars, goVars, pageVars>>

\* the message translator of validation.go applied to one violation
CallGetErrorMessageOfValidation ==
    /\ pc = "ready"
    /\ request = "violation"
    /\ pc' = "returned"
    /\ op' = "validation.getErrorMessage"
    /\ message' = validation_getErrorMessage(violation)
    /\ UNCHANGED <<request, input, body, form, violation, res, res2>>
    /\ UNCHANGED <<concVars, goVars, pageVars>>

\* Validate or ValidateForm called once more on the input as the first call
\* left it
CallValidateAgain ==
    /\ pc = "returned"
    /\ op \in {"Validate", "ValidateForm"}
    /\ pc' = "repeated"
    /\ res2' = Outcome(ValidateWith([input EXCEPT !.rec = res.rec],
                                    IF op = "Validate" THEN "json" ELSE "form"),
                       res.rec, NilErr, TRUE)
    /\ UNCHANGED <<op, request, input, body, form, violation, res, message>>
    /\ UNCHANGED <<concVars, goVars, pageVars>>

Next ==
    \/ CallValidate
    \/ CallValidateForm
    \/ CallBindJSON
    \/ CallBindAndValidateJSON
    \/ CallBindForm
    \/ CallBindAndValidateForm
    \/ CallGetErrorMessage
    \/ CallGetErrorMessageOfValidation
    \/ CallValidateAgain

Spec == Init /\ [][Next]_vars

----------------------------------------------------------------------------
(* concurrent bind-and-validate calls *)

Procs == {1, 2}

\* the addresses of the target records
Addrs == {1, 2}

\* all concurrent calls bind the login request type
ConcShape == 1

Member(key, val) == [key |-> key, val |-> val]

\* the requests of the concurrent calls: JSON bodies that are valid, miss the
\* required field, are malformed, or carry a string for the number; forms
\* that are valid, carry an unparsable number, or carry nothing
ConcRequests ==
    {[wire |-> "json", body |-> b, form |-> NoForm] :
        b \in {Body("object", <<Member(s_name, JStr("a")), Member(s_age, JNum(1))>>),
               Body("object", <<>>),
               Body("syntax", <<>>),
               Body("object", <<Member(s_age, JStr("a"))>>)}}
    \cup
    {[wire |-> "form", body |-> NoBody, form |-> Form(TRUE, vs, FALSE, NoValues)] :
        vs \in {(s_name :> <<"a">>) @@ (s_age :> <<"1">>),
                (s_age :> <<"x">>),
                NoValues}}

\* a call: its request, the address of its target and what the target holds
Call(req, target, rec0) ==
    [wire |-> req.wire, body |-> req.body, form |-> req.form,
     target |-> target, rec0 |-> rec0]

\* two calls on two requests; their targets are distinct or the same record
InitConc ==
    /\ pc = "off"
    /\ op = "none"
    /\ request = "none"
    /\ input = Input("nil", 1, <<>>)
    /\ body = NoBody
    /\ form = NoForm
    /\ violation = NoViolation
    /\ res = NoOutcome
    /\ res2 = NoOutcome
    /\ message = ""
    /\ \E r1, r2 \in ConcRequests, t2 \in Addrs :
       \E h \in [Addrs -> {ZeroRecord(ConcShape), FilledRecord(ConcShape)}] :
          /\ calls = (1 :> Call(r1, 1, h[1])) @@ (2 :> Call(r2, t2, h[t2]))
          /\ heap = h
    /\ cpc = [p \in Procs |-> "start"]
    /\ outs = [p \in Procs |-> Returned(NilMap, NilErr)]
    /\ cached = {}
    /\ IdleGo
    /\ IdlePage

\* every call decoding into the record at address 1
ConcTarget_Shared(p) == 1

\* the address `input` holds in call p
ConcTarget(p) == calls[p].target

\* the `input any` of call p: a pointer to the record its target holds now
ConcInput(p) == Input("ptr", ConcShape, heap[ConcTarget(p)])

\* first half of BindAndValidateJSON / BindAndValidateForm in call p: the
\* request is decoded into the target; a failure that converts ends the call
ConcBind(p) ==
    /\ cpc[p] = "start"
    /\ LET b == IF calls[p].wire = "json" THEN BindJSON(calls[p].body, ConcInput(p))
                ELSE BindForm(calls[p].form, ConcInput(p))
           g == IF calls[p].wire = "json" THEN getJsonErrorMessage(b.err)
                ELSE getFormErrorMessage(b.err)
       IN  /\ heap' = [heap EXCEPT ![ConcTarget(p)] = b.rec]
           /\ IF b.err # NilErr /\ g.err # NilErr
              THEN /\ outs' = [outs EXCEPT ![p] = g]
                   /\ cpc' = [cpc EXCEPT ![p] = "done"]
              ELSE /\ outs' = outs
                   /\ cpc' = [cpc EXCEPT ![p] = "bound"]
    /\ UNCHANGED <<calls, cached>>
    /\ UNCHANGED <<callVars, goVars, pageVars>>

\* second half in call p: Validate / ValidateForm on the target; the
\* package-level validator caches the record type
ConcValidate(p) ==
    /\ cpc[p] = "bound"
    /\ outs' = [outs EXCEPT ![p] = ValidateWith(ConcInput(p), calls[p].wire)]
    /\ cached' = cached \cup {ConcShape}
    /\ cpc' = [cpc EXCEPT ![p] = "done"]
    /\ UNCHANGED <<calls, heap>>
    /\ UNCHANGED <<callVars, goVars, pageVars>>

NextConc == \E p \in Procs : ConcBind(p) \/ ConcValidate(p)

SpecConc == InitConc /\ [][NextConc]_vars

----------------------------------------------------------------------------
(* asyncutil.SafeGo *)

\* Result[T] with T = int; Err is "" for nil, else the error's text
Result(value, err) == [Value |-> value, Err |-> err]

\* make(chan Result[T], 1)
ChanCap == 1

\* the stack trace debug.Stack() returns
Stack == "goroutine 7 [running]:"

\* a panic value: a string, an error (s is its Error()), or an int
PanicValues ==
    {[t |-> "string", s |-> "boom!", n |-> 0],
     [t |-> "error", s |-> "bad state", n |-> 0],
     [t |-> "int", s |-> "", n |-> 42]}

RECURSIVE Itoa(_)
\* the decimal digits of a natural number
Itoa(n) ==
    LET d == <<"0", "1", "2", "3", "4", "5", "6", "7", "8", "9">>[(n % 10) + 1]
    IN  IF n < 10 THEN d ELSE Itoa(n \div 10) \o d

\* fmt's %v of a panic value: the string itself, the error's Error(), the
\* decimal digits of the number
FormatV(r) == IF r.t = "int" THEN Itoa(r.n) ELSE r.s

\* fmt.Errorf("panic recovered: %v\n%s", r, debug.Stack())
PanicError(r) == "panic recovered: " \o FormatV(r) \o "\n" \o Stack

\* the functions handed to SafeGo: returning a value with or without an
\* error, or panicking
Fns ==
    {[kind |-> "returns", value |-> v, err |-> e, r |-> <<>>] :
        v \in {0, 42}, e \in {"", "something went wrong"}}
    \cup {[kind |-> "panics", value |-> 0, err |-> "", r |-> r] : r \in PanicValues}

InitSafeGo ==
    /\ pc = "off"
    /\ op = "none"
    /\ request = "none"
    /\ input = Input("nil", 1, <<>>)
    /\ body = NoBody
    /\ form = NoForm
    /\ violation = NoViolation
    /\ res = NoOutcome
    /\ res2 = NoOutcome
    /\ message = ""
    /\ IdleConc
    /\ IdlePage
    /\ fn \in Fns
    /\ OnPanic \in {"nil", "returns", "panics"}
    /\ wants \in BOOLEAN
    /\ caller = "before"
    /\ gpc = "none"
    /\ inflight = <<>>
    /\ ch = <<>>
    /\ handled = <<>>
    /\ received = <<>>

\* SafeGo(fn): the channel is made, the goroutine started, the channel
\* returned
CallSafeGo ==
    /\ caller = "before"
    /\ ch' = <<>>
    /\ gpc' = "fn"
    /\ caller' = "holding"
    /\ UNCHANGED <<fn, OnPanic, wants, inflight, handled, received>>
    /\ UNCHANGED <<callVars, concVars, pageVars>>

\* val, err := fn(): it returns, or it panics and the deferred function runs
RunFn ==
    /\ gpc = "fn"
    /\ IF fn.kind = "panics"
       THEN /\ gpc' = "recovered"
            /\ inflight' = fn.r
       ELSE /\ gpc' = "send"
            /\ inflight' = Result(fn.value, fn.err)
    /\ UNCHANGED <<fn, OnPanic, wants, caller, ch, handled, received>>
    /\ UNCHANGED <<callVars, concVars, pageVars>>

\* ch <- Result[T]{Value: val, Err: err}; the send waits while the buffer is
\* full; then the deferred function finds nothing to recover and the
\* goroutine ends
Send ==
    /\ gpc = "send"
    /\ Len(ch) < ChanCap
    /\ ch' = Append(ch, inflight)
    /\ gpc' = "exit"
    /\ UNCHANGED <<fn, OnPanic, wants, caller, inflight, handled, received>>
    /\ UNCHANGED <<callVars, concVars, pageVars>>

\* the deferred function never calling OnPanic
Recovered_SkipHandler ==
    /\ gpc = "recovered"
    /\ inflight' = Result(0, PanicError(inflight))
    /\ gpc' = "sendZero"
    /\ handled' = handled
    /\ UNCHANGED <<fn, OnPanic, wants, caller, ch, received>>
    /\ UNCHANGED <<callVars, concVars, pageVars>>

\* the deferred function after recover() returned r: err is built, and
\* OnPanic is called with it when it is not nil
Recovered ==
    /\ gpc = "recovered"
    /\ inflight' = Result(0, PanicError(inflight))
    /\ IF OnPanic # "nil"
       THEN /\ gpc' = "OnPanic"
            /\ handled' = Append(handled, PanicError(inflight))
       ELSE /\ gpc' = "sendZero"
            /\ handled' = handled
    /\ UNCHANGED <<fn, OnPanic, wants, caller, ch, received>>
    /\ UNCHANGED <<callVars, concVars, pageVars>>

\* OnPanic(err) comes to its end: it returns, or it panics; its panic is
\* recovered by the function deferred around it, which prints and returns,
\* so the rest of the outer deferred function, the send, is not run
EndOnPanic ==
    /\ gpc = "OnPanic"
    /\ gpc' = IF OnPanic = "panics" THEN "exit" ELSE "sendZero"
    /\ UNCHANGED <<fn, OnPanic, wants, caller, inflight, ch, handled, received>>
    /\ UNCHANGED <<callVars, concVars, pageVars>>

\* the deferred function ending after OnPanic without the send
SendZero_Dropped ==
    /\ gpc = "sendZero"
    /\ gpc' = "exit"
    /\ UNCHANGED <<fn, OnPanic, wants, caller, inflight, ch, handled, received>>
    /\ UNCHANGED <<callVars, concVars, pageVars>>

\* ch <- Result[T]{Value: zero, Err: err}
SendZero ==
    /\ gpc = "sendZero"
    /\ Len(ch) < ChanCap
    /\ ch' = Append(ch, inflight)
    /\ gpc' = "exit"
    /\ UNCHANGED <<fn, OnPanic, wants, caller, inflight, handled, received>>
    /\ UNCHANGED <<callVars, concVars, pageVars>>

\* res := <-ch in the caller
Receive ==
    /\ caller = "holding"
    /\ wants
    /\ ch # <<>>
    /\ received' = Head(ch)
    /\ ch' = Tail(ch)
    /\ caller' = "received"
    /\ UNCHANGED <<fn, OnPanic, wants, gpc, inflight, handled>>
    /\ UNCHANGED <<callVars, concVars, pageVars>>

Goroutine == RunFn \/ Send \/ Recovered \/ EndOnPanic \/ SendZero

NextSafeGo ==
    \/ CallSafeGo
    \/ RunFn
    \/ Send
    \/ Recovered
    \/ EndOnPanic
    \/ SendZero
    \/ Receive

SpecSafeGo == InitSafeGo /\ [][NextSafeGo]_vars

\* the caller calls SafeGo; the scheduler runs a goroutine that can take a
\* step; a caller blocked in a receive is woken when a value is there
FairSafeGo ==
    /\ SpecSafeGo
    /\ WF_vars(CallSafeGo)
    /\ WF_vars(Goroutine)
    /\ WF_vars(Receive)

----------------------------------------------------------------------------
(* queryutil.CalculateTotalPage, one call *)

InitPage ==
    /\ pc = "off"
    /\ op = "none"
    /\ request = "none"
    /\ input = Input("nil", 1, <<>>)
    /\ body = NoBody
    /\ form = NoForm
    /\ violation = NoViolation
    /\ res = NoOutcome
    /\ res2 = NoOutcome
    /\ message = ""
    /\ IdleConc
    /\ IdleGo
    /\ rows \in -MaxTotalData .. MaxTotalData
    /\ size \in -MaxPerPage .. MaxPerPage
    /\ pages = <<>>

CallCalculateTotalPage ==
    /\ pages = <<>>
    /\ pages' = <<CalculateTotalPage(rows, size)>>
    /\ UNCHANGED <<rows, size>>
    /\ UNCHANGED <<callVars, concVars, goVars>>

NextPage == CallCalculateTotalPage

SpecPage == InitPage /\ [][NextPage]_vars

----------------------------------------------------------------------------
(* properties *)

Called(name) == pc = "returned" /\ op = name

\* the shape of the record the call was given
InputShape == Shapes[input.shape]

\* the body is an object carrying a key no field of t decodes
HasUnknownKey(b, t) ==
    /\ b.kind = "object"
    /\ \E i \in 1..Len(b.members) : FieldsOfKey(t, b.members[i].key) = {}

\* a constraint of field f holds of value v; nothing holds of a nil pointer
Satisfied(f, v, c) ==
    IF f.type.kind = "ptr"
    THEN v # <<>> /\ ~Fails(c, f.type.elem, v[1])
    ELSE ~Fails(c, f.type, v)

RECURSIVE AllSatisfied(_, _)
RECURSIVE FieldSatisfied(_, _)
\* every declared constraint of the record is satisfied: those of its
\* fields, of the records it nests, and of the elements its tags dive into
AllSatisfied(t, rec) ==
    \A i \in 1..Len(t.fields) : FieldSatisfied(t.fields[i], rec[i])

\* the constraints declared for one field, or for one element of a slice
\* taken as a field under the constraints that follow `dive`
FieldSatisfied(f, v) ==
    LET own == OwnConstraints(f.validate)
    IN  /\ \A k \in 1..Len(own) : Satisfied(f, v, own[k])
        /\ f.type.kind = "struct" => AllSatisfied(f.type, v)
        /\ (f.type.kind = "ptr" /\ f.type.elem.kind = "struct" /\ v # <<>>)
              => AllSatisfied(f.type.elem, v[1])
        /\ (f.type.kind = "slice" /\ DivePos(f.validate) # 0) =>
              \A e \in 1..Len(v.elems) :
                  FieldSatisfied([f EXCEPT !.type = f.type.elem,
                                           !.validate = ElemConstraints(f.validate)],
                                 v.elems[e])

\* the map holds the one key with the one message
IsSingleEntry(fieldErrors, key, msg) ==
    /\ ~fieldErrors.nil
    /\ DOMAIN fieldErrors.m = {key}
    /\ fieldErrors.m[key] = <<msg>>

\* C1: BindAndValidateJSON on a body with a key the record does not declare
\* returns the invalid-body error kind and never runs constraint validation.
C1_UnknownKeyIsInvalidBody ==
    (/\ Called("BindAndValidateJSON")
     /\ input.kind = "ptr"
     /\ HasUnknownKey(body, InputShape))
    => (/\ ~res.out.panic
        /\ res.out.err = Err400InvalidBody
        /\ ~res.validated)

\* a decode failure that is neither a syntax error nor a type mismatch that
\* names a field
Unconvertible(err) ==
    /\ err # NilErr
    /\ err.type # "SyntaxError"
    /\ ~(err.type = "UnmarshalTypeError" /\ err.field # <<>>)

\* C2: when the decode step fails with a failure that is neither a syntax
\* error nor a field-attributable type mismatch, BindAndValidateJSON returns
\* that failure unchanged with a nil map and does not run constraint
\* validation.
C2_UnconvertibleFailurePropagates ==
    (/\ Called("BindAndValidateJSON")
     /\ input.kind = "ptr"
     /\ Unconvertible(res.bindErr))
    => (/\ res.out = Returned(NilMap, res.bindErr)
        /\ ~res.validated)

\* C3: BindAndValidateForm with a target that is nil, not a pointer, or a
\* pointer to a non-record returns invalid-body with a nil map and does not
\* run constraint validation.
C3_BadTargetIsInvalidBody ==
    (/\ Called("BindAndValidateForm")
     /\ form.parseOk
     /\ input.kind # "ptr")
    => (/\ res.out = Returned(NilMap, Err400InvalidBody)
        /\ ~res.validated)

\* C4: no call of Validate, ValidateForm, BindAndValidateJSON or
\* BindAndValidateForm panics, whatever its input.
C4_NoPanic ==
    (/\ pc = "returned"
     /\ op \in {"Validate", "ValidateForm", "BindAndValidateJSON",
                "BindAndValidateForm"})
    => ~res.out.panic

\* C5: when every declared constraint of the record is satisfied, Validate
\* and ValidateForm return exactly (nil map, nil error), for a record passed
\* by value or by pointer.
C5_ValidIsNilNil ==
    (/\ Called("Validate") \/ Called("ValidateForm")
     /\ IsRecord(input)
     /\ AllSatisfied(InputShape, input.rec))
    => (/\ ~res.out.panic
        /\ res.out.fieldErrors.nil
        /\ res.out.fieldErrors = NilMap
        /\ res.out.err = NilErr)

\* a record with a declared constraint, all satisfied, was validated through
\* a pointer
C5_Witness ==
    /\ Called("ValidateForm")
    /\ input.kind = "ptr"
    /\ \E i \in 1..Len(InputShape.fields) : InputShape.fields[i].validate # <<>>
    /\ AllSatisfied(InputShape, input.rec)

\* C6: on a JSON syntax error BindAndValidateJSON returns the map with the
\* single key "json" and its single message, the invalid-body error kind, and
\* does not run constraint validation.
C6_SyntaxErrorShortCircuits ==
    (/\ Called("BindAndValidateJSON")
     /\ body.kind = "syntax")
    => (/\ ~res.out.panic
        /\ IsSingleEntry(res.out.fieldErrors, s_json,
               "invalid JSON format: please check for missing commas, braces, or quotes")
        /\ res.out.err = Err400InvalidBody
        /\ ~res.validated)

\* a malformed body was submitted for a record that violates constraints
C6_Witness ==
    /\ Called("BindAndValidateJSON")
    /\ body.kind = "syntax"
    /\ input.kind = "ptr"
    /\ ~AllSatisfied(InputShape, input.rec)

RECURSIVE Indirect(_)
\* a type with its pointers followed
Indirect(t) == IF t.kind = "ptr" THEN Indirect(t.elem) ELSE t

\* the field a wire key decodes into
DeclaredField(t, key) == t.fields[CHOOSE i \in FieldsOfKey(t, key) : TRUE]

\* the decoder reported a type mismatch and named the field
FieldMismatch ==
    /\ Called("BindAndValidateJSON")
    /\ res.bindErr.type = "UnmarshalTypeError"
    /\ res.bindErr.field # <<>>

MissingRequired(t, rec) ==
    {i \in 1..Len(t.fields) :
        /\ t.fields[i].validate # <<>>
        /\ t.fields[i].validate[1] = Required
        /\ ~HasValue(t.fields[i].type, rec[i])}

\* C8: for an empty body BindAndValidateJSON leaves the record unmodified and
\* returns the outcome of constraint validation on it: its violations with
\* the invalid-data error kind, every required field without a value reported
\* as "field is required".
C8_EmptyBodyValidates ==
    (/\ Called("BindAndValidateJSON")
     /\ body.kind = "empty"
     /\ IsRecord(input))
    => (/\ res.rec = input.rec
        /\ res.validated
        /\ res.out = Validate(input)
        /\ ~res.out.panic
        /\ AllSatisfied(InputShape, input.rec) => res.out = Returned(NilMap, NilErr)
        /\ ~AllSatisfied(InputShape, input.rec) =>
              /\ res.out.err = Err400InvalidData
              /\ \A i \in MissingRequired(InputShape, input.rec) :
                   LET key == getJSONTagName(InputShape.fields[i])
                   IN  /\ key \in DOMAIN res.out.fieldErrors.m
                       /\ res.out.fieldErrors.m[key] = <<"field is required">>)

\* an empty body was bound to a fresh record that has a required field
C8_Witness ==
    /\ Called("BindAndValidateJSON")
    /\ body.kind = "empty"
    /\ input = Input("ptr", input.shape, ZeroRecord(input.shape))
    /\ MissingRequired(InputShape, input.rec) # {}

\* the raw values that parse as a scalar kind
Parsable(kind) ==
    CASE kind = "int" -> {"1", "-1"}
      [] kind = "uint" -> {"1"}
      [] kind = "float64" -> {"1", "-1"}
      [] kind = "bool" -> {"1"}
      [] OTHER -> RawValues

\* a raw value coerces to a scalar kind: strings take anything, the others
\* skip the empty string and parse the rest
CoercesScalar(kind, raw) ==
    kind = "string" \/ raw = "" \/ raw \in Parsable(kind)

RECURSIVE Coerces(_, _)
\* a submitted list coerces to a field's type
Coerces(t, vs) ==
    CASE t.kind = "ptr" -> vs[1] = "" \/ Coerces(t.elem, vs)
      [] t.kind = "slice" ->
           t.elem.kind = "string"
           \/ \A k \in 1..Len(vs) : CoercesScalar(t.elem.kind, vs[k])
      [] OTHER -> CoercesScalar(t.kind, vs[1])

\* the fields binding reads whose submitted list does not coerce
Offending(t, values) ==
    {i \in 1..Len(t.fields) :
        /\ IsBound(t.fields[i])
        /\ FormKey(t.fields[i]) \in DOMAIN values
        /\ ~Coerces(t.fields[i].type, values[FormKey(t.fields[i])])}

\* the first of them in declaration order
FirstOffending(t, values) ==
    CHOOSE i \in Offending(t, values) : \A j \in Offending(t, values) : i <= j

\* a form with a value that does not coerce is bound to a record
CoercionFails ==
    /\ input.kind = "ptr"
    /\ form.parseOk
    /\ Offending(InputShape, form.values) # {}

Submitted(i) == form.values[FormKey(InputShape.fields[i])][1]

\* the fields binding reads for which the form carries a value
SubmittedFields ==
    {i \in 1..Len(InputShape.fields) :
        /\ IsBound(InputShape.fields[i])
        /\ FormKey(InputShape.fields[i]) \in DOMAIN form.values}

\* binding reported a type error for field i
ErrorAt(i) ==
    /\ res.bindErr.type = "FormTypeError"
    /\ res.bindErr.field = FormKey(InputShape.fields[i])

\* an empty string was submitted for a pointer field
EmptyForPointer(i) ==
    /\ InputShape.fields[i].type.kind = "ptr"
    /\ Submitted(i) = ""

\* an empty string was submitted for an integer, unsigned, float or boolean
EmptyForScalar(i) ==
    /\ InputShape.fields[i].type.kind \in {"int", "uint", "float64", "bool"}
    /\ Submitted(i) = ""

\* a non-empty value that does not parse was submitted for a numeric or
\* boolean field, pointer or not
Unparsable(i) ==
    /\ Indirect(InputShape.fields[i].type).kind \in {"int", "uint", "float64", "bool"}
    /\ Submitted(i) # ""
    /\ Submitted(i) \notin Parsable(Indirect(InputShape.fields[i].type).kind)

\* C10: form binding of a submitted value: an empty string for a pointer
\* field leaves the field as it was (nil on a fresh record) with no error; an
\* empty string for a non-pointer integer, unsigned, float or boolean field
\* leaves the field as it was (zero on a fresh record) with no error; a
\* non-empty value that does not parse as the field's numeric or boolean type
\* yields a type error keyed by the field's form name.
C10_EmptyAndUnparsableValues ==
    (/\ Called("BindForm")
     /\ input.kind = "ptr"
     /\ form.parseOk)
    => \A i \in SubmittedFields :
         /\ (EmptyForPointer(i) \/ EmptyForScalar(i)) =>
               /\ res.rec[i] = input.rec[i]
               /\ input.rec[i] = Zero(InputShape.fields[i].type)
                     => res.rec[i] = Zero(InputShape.fields[i].type)
               /\ ~ErrorAt(i)
         /\ (Unparsable(i) /\ i = FirstOffending(InputShape, form.values)) =>
               /\ res.out.err = FormTypeError(FormKey(InputShape.fields[i]),
                                    TypeString(InputShape.fields[i].type),
                                    Submitted(i))
               /\ ErrorAt(i)

\* a fresh record was bound from a form with an empty value for a pointer
\* field and an empty value for a non-pointer scalar field
C10_Witness ==
    /\ Called("BindForm")
    /\ form.parseOk
    /\ input = Input("ptr", input.shape, ZeroRecord(input.shape))
    /\ \E i \in SubmittedFields : EmptyForPointer(i)
    /\ \E i \in SubmittedFields : EmptyForScalar(i)
    /\ res.out.err = NilErr

\* a fresh record was bound from a form with a non-empty value that does not
\* parse as its field's type
C10_WitnessUnparsable ==
    /\ Called("BindForm")
    /\ input.kind = "ptr"
    /\ form.parseOk
    /\ \E i \in SubmittedFields :
         Unparsable(i) /\ i = FirstOffending(InputShape, form.values)

\* the field declares a form name that is not suppressed: it carries a form
\* tag, and the tag is not "-"
DeclaresFormName(f) == f.form # <<>> /\ f.form # s_dash

\* the form carries a key spelled as the Go name of a field that declares no
\* form name
CarriesGoNameOfSkipped ==
    \E i \in 1..Len(InputShape.fields) :
        /\ ~DeclaresFormName(InputShape.fields[i])
        /\ InputShape.fields[i].name \in DOMAIN form.values

\* the names the submitted data carries: the keys of its values and the
\* names of its attachments
SubmittedNames == (DOMAIN form.values) \cup (DOMAIN form.files)

\* C11: BindForm assigns a field only if the field declares a form name that
\* is not suppressed and that name is a key of the submitted data; every
\* other field (key absent, no form tag, tag "-", even when a submitted key
\* is the field's Go name) keeps the value it had, and a key that is absent
\* never produces a binding error: a type error names a submitted key, and a
\* parsed form that carries none of the record's form names binds without
\* error.
C11_BindFormFrame ==
    (Called("BindForm") /\ input.kind = "ptr") =>
        /\ \A i \in 1..Len(InputShape.fields) :
              res.rec[i] # input.rec[i] =>
                 /\ DeclaresFormName(InputShape.fields[i])
                 /\ TagName(InputShape.fields[i].form) \in SubmittedNames
        /\ res.out.err.type = "FormTypeError" =>
              res.out.err.field \in DOMAIN form.values
        /\ (/\ form.parseOk
            /\ \A i \in 1..Len(InputShape.fields) :
                  DeclaresFormName(InputShape.fields[i]) =>
                     TagName(InputShape.fields[i].form) \notin SubmittedNames)
           => (res.out.err = NilErr /\ res.rec = input.rec)

\* a form carrying the Go name of a field without a form name, and the form
\* name of another field, was bound: the second field alone was assigned
C11_Witness ==
    /\ Called("BindForm")
    /\ input.kind = "ptr"
    /\ CarriesGoNameOfSkipped
    /\ res.out.err = NilErr
    /\ res.rec # input.rec

\* a form carrying only keys that are no form name of the record was bound
C11_WitnessAbsent ==
    /\ Called("BindForm")
    /\ input.kind = "ptr"
    /\ form.parseOk
    /\ CarriesGoNameOfSkipped
    /\ res.rec = input.rec
    /\ res.out.err = NilErr

\* field i is a file field binding reads
FileFieldAt(i) ==
    /\ DeclaresFormName(InputShape.fields[i])
    /\ InputShape.fields[i].type \in {TFile, SliceOf(TFile)}

\* the attachments submitted under the form name of field i, in submission
\* order; none when the request carries no multipart part set
AttachmentsFor(i) ==
    IF form.multipart /\ TagName(InputShape.fields[i].form) \in DOMAIN form.files
    THEN form.files[TagName(InputShape.fields[i].form)]
    ELSE <<>>

\* no submitted value stops the bind before it has gone through the fields
BindsThrough == Offending(InputShape, form.values) = {}

\* C12: when BindForm goes through the fields of a record, a single-file
\* field holds the first attachment submitted under its form name and a
\* file-list field holds all attachments submitted under its name in
\* submission order; when no attachment is submitted under the name, or the
\* request carries no multipart part set, the field is as it was (nil on a
\* fresh record, never an empty non-nil list); attachments raise no error.
C12_FileBinding ==
    (/\ Called("BindForm")
     /\ input.kind = "ptr"
     /\ form.parseOk
     /\ BindsThrough)
    => /\ res.out.err = NilErr
       /\ \A i \in 1..Len(InputShape.fields) :
             FileFieldAt(i) =>
                LET fs == AttachmentsFor(i)
                    t == InputShape.fields[i].type
                IN  /\ (fs # <<>> /\ t = TFile) => res.rec[i] = fs[1]
                    /\ (fs # <<>> /\ t = SliceOf(TFile)) =>
                          res.rec[i] = [nil |-> FALSE, elems |-> fs]
                    /\ fs = <<>> =>
                          /\ res.rec[i] = input.rec[i]
                          /\ res.rec[i] # [nil |-> FALSE, elems |-> <<>>]
                          /\ input.rec = ZeroRecord(input.shape)
                                => res.rec[i] = Zero(t)

\* a multipart request with two attachments under a file-list field's name
\* and one under a single-file field's name was bound
C12_Witness ==
    /\ Called("BindForm")
    /\ input.kind = "ptr"
    /\ form.parseOk
    /\ BindsThrough
    /\ \E i, j \in 1..Len(InputShape.fields) :
          /\ FileFieldAt(i) /\ InputShape.fields[i].type = SliceOf(TFile)
          /\ Len(AttachmentsFor(i)) = 2
          /\ AttachmentsFor(i)[1] # AttachmentsFor(i)[2]
          /\ FileFieldAt(j) /\ InputShape.fields[j].type = TFile
          /\ AttachmentsFor(j) = <<>>
          /\ res.rec[j] = <<>>

\* a fresh record with file fields was bound from a request without a
\* multipart part set, and from one whose attachments carry another name
C12_WitnessNoMatch ==
    /\ Called("BindForm")
    /\ input = Input("ptr", input.shape, ZeroRecord(input.shape))
    /\ form.parseOk
    /\ form.multipart
    /\ DOMAIN form.files = {s_other}
    /\ \E i \in 1..Len(InputShape.fields) : FileFieldAt(i)
    /\ res.rec = input.rec

\* the wire format a validation call resolves names under
WireOf(name) == IF name = "ValidateForm" THEN "form" ELSE "json"

\* the text of a tag before its first comma
BeforeComma(tag) ==
    IF IndexOf(tag, ",") < 0 THEN tag ELSE SubSeq(tag, 1, IndexOf(tag, ","))

\* the external name a field declares under a wire format, or its Go name
\* when it declares no tag, an empty name, or the name "-"
DeclaredName(f, wire) ==
    LET tag == IF wire = "json" THEN f.json ELSE f.form
    IN  IF tag = <<>> \/ BeforeComma(tag) = <<>> \/ BeforeComma(tag) = s_dash
        THEN f.name
        ELSE BeforeComma(tag)

\* the root-level fields of the record that violate a constraint of their own
RootViolating(t, rec) ==
    {i \in 1..Len(t.fields) : FieldViolation(t.fields[i], rec[i]) # <<>>}

\* the violation the engine reports for root-level field i
RootFieldError(t, rec, i) ==
    FieldError(FieldViolation(t.fields[i], rec[i])[1],
               t.name \o <<".">> \o t.fields[i].name)

\* the path the resolver of a wire format returns
Resolve(root, fe, wire) ==
    IF wire = "json" THEN buildJSONPath(root, fe) ELSE buildFormPath(root, fe)

\* C13: for every record shape and every root-level field that violates a
\* constraint, the path resolver (buildJSONPath under Validate, buildFormPath
\* under ValidateForm) returns exactly the field's declared external name,
\* the tag text before the first comma, and the field's Go name when no tag
\* is declared, the tag name is empty, or the tag name is "-"; the returned
\* map is keyed by it.
C13_RootFieldResolvesToDeclaredName ==
    (/\ Called("Validate") \/ Called("ValidateForm")
     /\ IsRecord(input))
    => \A i \in RootViolating(InputShape, input.rec) :
          LET want == DeclaredName(InputShape.fields[i], WireOf(op))
          IN  /\ Resolve(InputShape, RootFieldError(InputShape, input.rec, i),
                         WireOf(op)) = [panic |-> FALSE, path |-> want]
              /\ ~res.out.panic
              /\ want \in DOMAIN res.out.fieldErrors.m

\* C13 on the record types none of whose fields carries the type's name
C13_ExceptTypeNamedField ==
    (/\ Called("Validate") \/ Called("ValidateForm")
     /\ IsRecord(input)
     /\ \A i \in 1..Len(InputShape.fields) :
           InputShape.fields[i].name # InputShape.name)
    => \A i \in RootViolating(InputShape, input.rec) :
          LET want == DeclaredName(InputShape.fields[i], WireOf(op))
          IN  /\ Resolve(InputShape, RootFieldError(InputShape, input.rec, i),
                         WireOf(op)) = [panic |-> FALSE, path |-> want]
              /\ ~res.out.panic
              /\ want \in DOMAIN res.out.fieldErrors.m

\* prefix.name, or name at the root
Dot(prefix, name) == IF prefix = <<>> THEN name ELSE prefix \o <<".">> \o name

\* the decimal digit of a slice index
Digit(n) == << <<"0", "1", "2", "3", "4", "5", "6", "7", "8", "9">>[n + 1] >>

RECURSIVE KeysIn(_, _, _, _)
RECURSIVE KeysAt(_, _, _, _)

\* the external paths of the violating places of a record: each segment is
\* the declared external name of the field in the record that encloses it,
\* and a slice index is one more '.'-joined segment
KeysIn(t, rec, prefix, wire) ==
    UNION {KeysAt(t.fields[i], rec[i],
                  Dot(prefix, DeclaredName(t.fields[i], wire)), wire) :
              i \in 1..Len(t.fields)}

KeysAt(f, v, path, wire) ==
    IF FieldViolation(f, v) # <<>> THEN {path}
    ELSE IF f.type.kind = "struct" THEN KeysIn(f.type, v, path, wire)
    ELSE IF f.type.kind = "ptr" /\ f.type.elem.kind = "struct"
    THEN IF v = <<>> THEN {} ELSE KeysIn(f.type.elem, v[1], path, wire)
    ELSE IF f.type.kind = "slice" /\ DivePos(f.validate) # 0
    THEN UNION {IF f.type.elem.kind = "struct"
                THEN KeysIn(f.type.elem, v.elems[k], Dot(path, Digit(k - 1)), wire)
                ELSE IF \E c \in 1..Len(ElemConstraints(f.validate)) :
                           Fails(ElemConstraints(f.validate)[c], f.type.elem,
                                 v.elems[k])
                THEN {Dot(path, Digit(k - 1))}
                ELSE {} :
                   k \in 1..Len(v.elems)}
    ELSE {}

\* the record type nests records or dives into slices
Nested(t) ==
    \E i \in 1..Len(t.fields) :
        \/ t.fields[i].type.kind = "struct"
        \/ t.fields[i].type.kind = "ptr" /\ t.fields[i].type.elem.kind = "struct"
        \/ t.fields[i].type.kind = "slice" /\ DivePos(t.fields[i].validate) # 0

p_roles_0_name == <<"r", "o", "l", "e", "s", ".", "0", ".", "n", "a", "m", "e">>
p_permissionIds_0 == <<"p", "e", "r", "m", "i", "s", "s", "i", "o", "n", "I", "d", "s", ".", "0">>
ns_Roles_0_Name == <<"U", "s", "e", "r", "R", "e", "q", "u", "e", "s", "t", ".", "R", "o", "l", "e", "s", "[", "0", "]", ".", "N", "a", "m", "e">>
ns_PermissionIDs_0 == <<"U", "s", "e", "r", "R", "e", "q", "u", "e", "s", "t", ".", "P", "e", "r", "m", "i", "s", "s", "i", "o", "n", "I", "D", "s", "[", "0", "]">>

\* a record type with a slice whose elements are slices
HasSliceOfSlices(t) ==
    \E i \in 1..Len(t.fields) :
        /\ t.fields[i].type.kind = "slice"
        /\ t.fields[i].type.elem.kind = "slice"

ParamText(v) == JoinTokens(v.param, " ")

\* C15: the message translator is total: required, email, max, min, boolean,
\* oneof and uuid each map to their fixed message (max and min with the
\* violation's parameter appended, oneof with the space-separated parameter
\* tokens re-joined by ", "), and every other constraint kind maps to
\* "field is invalid".
C15_TranslatorTable ==
    Called("getErrorMessage") =>
       /\ violation.tag = "required" => message = "field is required"
       /\ violation.tag = "email" => message = "field must be a valid email address"
       /\ violation.tag = "max" =>
             message = "maximum length is " \o ParamText(violation)
       /\ violation.tag = "min" =>
             message = "minimum value is " \o ParamText(violation)
       /\ violation.tag = "boolean" => message = "field must be a boolean"
       /\ violation.tag = "oneof" =>
             message = "field must be one of: " \o JoinTokens(violation.param, ", ")
       /\ violation.tag = "uuid" => message = "field must be a valid UUID"
       /\ violation.tag \notin {"required", "email", "max", "min", "boolean",
                                "oneof", "uuid"}
             => message = "field is invalid"
       /\ message # ""

\* a oneof violation with two tokens was translated
C15_Witness ==
    /\ Called("getErrorMessage")
    /\ violation.tag = "oneof"
    /\ violation.param = <<"admin", "user">>
    /\ message = "field must be one of: admin, user"

\* a violation of a kind the translator does not name was translated
C15_WitnessOther ==
    /\ Called("getErrorMessage")
    /\ violation.tag = "gte"
    /\ message = "field is invalid"

RECURSIVE MessagesUnder(_, _, _, _)
\* the messages of the violations of list that resolve to key, in the order
\* of list
MessagesUnder(list, root, wire, key) ==
    IF list = <<>> THEN <<>>
    ELSE (IF Resolve(root, Head(list), wire).path = key
          THEN <<getErrorMessage(Head(list))>> ELSE <<>>)
         \o MessagesUnder(Tail(list), root, wire, key)

RECURSIVE SumOver(_, _)
SumOver(m, keys) ==
    IF keys = {} THEN 0
    ELSE LET k == CHOOSE x \in keys : TRUE
         IN  Len(m[k]) + SumOver(m, keys \ {k})

\* the number of messages a map holds over all its keys
TotalMessages(m) == SumOver(m, DOMAIN m)

\* the engine reports one or more violations for the record
HasViolations ==
    /\ IsRecord(input)
    /\ StructValidate(input).kind = "ValidationErrors"

\* C16: on one or more violations Validate (and ValidateForm) returns the
\* invalid-data error kind and a map whose key set is exactly the set of
\* resolved external paths of the reported violations; the list under each
\* key holds one message per violation resolving to that path, in the order
\* the engine reported them, so the map holds as many messages as there are
\* violations.
C16_MapMirrorsViolations ==
    (/\ Called("Validate") \/ Called("ValidateForm")
     /\ HasViolations)
    => LET reported == StructValidate(input).list
           root == InputShape
           wire == WireOf(op)
           m == res.out.fieldErrors.m
       IN  /\ ~res.out.panic
           /\ res.out.err = Err400InvalidData
           /\ ~res.out.fieldErrors.nil
           /\ DOMAIN m = {Resolve(root, reported[k], wire).path :
                             k \in 1..Len(reported)}
           /\ \A key \in DOMAIN m :
                 m[key] = MessagesUnder(reported, root, wire, key)
           /\ TotalMessages(m) = Len(reported)

\* C16 on the record types none of whose fields carries the type's name
C16_ExceptTypeNamedField ==
    (/\ Called("Validate") \/ Called("ValidateForm")
     /\ HasViolations
     /\ \A i \in 1..Len(InputShape.fields) :
           InputShape.fields[i].name # InputShape.name)
    => LET reported == StructValidate(input).list
           root == InputShape
           wire == WireOf(op)
           m == res.out.fieldErrors.m
       IN  /\ ~res.out.panic
           /\ res.out.err = Err400InvalidData
           /\ ~res.out.fieldErrors.nil
           /\ DOMAIN m = {Resolve(root, reported[k], wire).path :
                             k \in 1..Len(reported)}
           /\ \A key \in DOMAIN m :
                 m[key] = MessagesUnder(reported, root, wire, key)
           /\ TotalMessages(m) = Len(reported)

\* two violations that resolve to one path were reported: the key holds both
\* messages
C16_WitnessSharedKey ==
    /\ Called("Validate")
    /\ HasViolations
    /\ ~res.out.panic
    /\ \E key \in DOMAIN res.out.fieldErrors.m :
          Len(res.out.fieldErrors.m[key]) = 2

Alone(p) ==
    LET arg == Input("ptr", ConcShape, calls[p].rec0)
    IN  IF calls[p].wire = "json" THEN BindAndValidateJSON(calls[p].body, arg)
        ELSE BindAndValidateForm(calls[p].form, arg)

\* the calls run on distinct target records
DistinctTargets == calls[1].target # calls[2].target

\* C18: bind-and-validate calls that run concurrently on distinct requests
\* and distinct target records do not interfere: a call that has not started
\* finds its target as it was, and under every interleaving a call that is
\* over has returned the map and error kind, and left in its target the
\* record, that it returns and leaves when run alone.
C18_ConcurrentCallsDoNotInterfere ==
    DistinctTargets =>
        \A p \in Procs :
            /\ cpc[p] = "start" => heap[calls[p].target] = calls[p].rec0
            /\ cpc[p] = "done" =>
                  /\ outs[p] = Alone(p).out
                  /\ heap[calls[p].target] = Alone(p).rec

\* two calls on distinct targets are over, one with violations and one with
\* none
C18_Witness ==
    /\ DistinctTargets
    /\ cpc = [p \in Procs |-> "done"]
    /\ outs[1].err = Err400InvalidData
    /\ outs[2] = Returned(NilMap, NilErr)
    /\ cached # {}

\* a call that started after the other had bound is over
C18_WitnessInterleaved ==
    /\ DistinctTargets
    /\ cpc[1] = "done"
    /\ cpc[2] = "bound"
    /\ calls[1].wire # calls[2].wire

\* the Result the goroutine owes the caller
Expected ==
    IF fn.kind = "panics" THEN Result(0, PanicError(fn.r))
    ELSE Result(fn.value, fn.err)

\* the number of Results sent so far: those buffered and the one received
Sends == Len(ch) + (IF caller = "received" THEN 1 ELSE 0)

\* at most one Result is sent, exactly one once the goroutine is over, and
\* it is the Result owed; a send never finds the buffer full
C19_Safe ==
    /\ Sends <= 1
    /\ gpc = "exit" => Sends = 1
    /\ ch # <<>> => ch = <<Expected>>
    /\ caller = "received" => received = Expected
    /\ gpc \in {"send", "sendZero"} => ch = <<>>

\* C19: for every fn that returns normally, returns an error, or panics,
\* with OnPanic nil or returning normally, the goroutine started by SafeGo
\* sends exactly one Result on the channel and then terminates; the send
\* never blocks, even if the caller never receives; and a caller that
\* receives once eventually gets that Result.
C19_OneResultThenExit ==
    (OnPanic # "panics") =>
        /\ []C19_Safe
        /\ <>(gpc = "exit")
        /\ wants => <>(caller = "received" /\ received = Expected)

\* fn panicked, the caller never receives, and the goroutine is over with
\* the Result in the buffer
C19_Witness ==
    /\ fn \in Fns
    /\ fn.kind = "panics"
    /\ OnPanic = "returns"
    /\ ~wants
    /\ gpc = "exit"
    /\ ch = <<Expected>>

\* fn returned an error and the caller received the Result
C19_WitnessReceived ==
    /\ fn \in Fns
    /\ fn.kind = "returns"
    /\ fn.err # ""
    /\ caller = "received"
    /\ received = Result(fn.value, fn.err)

\* how a panic value reads in the error text
ShownAs(r) ==
    CASE r.t = "string" -> "boom!"
      [] r.t = "error" -> "bad state"
      [] r.t = "int" -> "42"

\* the Result r delivered after a panic: zero Value, the error text starting
\* with "panic recovered: " and the panic value, the same error OnPanic was
\* called with, OnPanic over
DeliveredAfterPanic(r) ==
    /\ r.Value = 0
    /\ r.Err = ("panic recovered: " \o ShownAs(fn.r)) \o ("\n" \o Stack)
    /\ handled = <<r.Err>>
    /\ gpc \in {"sendZero", "exit"}

C20_Safe ==
    /\ Len(handled) <= 1
    /\ fn.kind = "returns" => handled = <<>>
    /\ (fn.kind = "panics" /\ ch # <<>>) => DeliveredAfterPanic(ch[1])
    /\ (fn.kind = "panics" /\ caller = "received") => DeliveredAfterPanic(received)

\* C20: with a handler set, SafeGo invokes OnPanic exactly once when fn
\* panics and never when fn returns, with or without an error; when fn
\* panics the delivered Result has the zero Value and an Err whose text
\* starts with "panic recovered: " followed by the panic value, OnPanic
\* receives that same error, and OnPanic is over before the Result can be
\* received from the channel.
C20_OnPanicOnceBeforeResult ==
    (OnPanic # "nil") =>
        /\ []C20_Safe
        /\ fn.kind = "panics" => <>(Len(handled) = 1)

\* fn panicked with an int, OnPanic was called and returned, and the Result
\* is in the buffer
C20_Witness ==
    /\ fn \in Fns
    /\ fn.kind = "panics"
    /\ fn.r.t = "int"
    /\ OnPanic = "returns"
    /\ ch # <<>>
    /\ handled = <<ch[1].Err>>

\* C21: CalculateTotalPage returns 0 when totalData < 0 or perPage <= 0, and
\* otherwise the least n >= 0 with n * perPage >= totalData.
C21_TotalPageIsCeiling ==
    pages # <<>> =>
        IF rows < 0 \/ size <= 0
        THEN pages[1] = 0
        ELSE /\ pages[1] >= 0
             /\ pages[1] * size >= rows
             /\ \A n \in 0 .. pages[1] - 1 : n * size < rows

\* a call that rounded a remainder up to a second page or beyond
C21_Witness ==
    /\ pages # <<>>
    /\ rows > 0
    /\ size > 1
    /\ rows % size > 0
    /\ pages[1] > 1

\* a call with an argument out of range
C21_WitnessInvalid ==
    /\ pages = <<0>>
    /\ (rows < 0 \/ size <= 0)

\* the raw value setFieldValue could not coerce: for a slice the first
\* element that does not parse, otherwise the first value submitted
FailedRaw(t, vs) ==
    IF t.kind = "slice"
    THEN vs[CHOOSE k \in 1..Len(vs) :
                /\ ~CoercesScalar(t.elem.kind, vs[k])
                /\ \A j \in 1..(k - 1) : CoercesScalar(t.elem.kind, vs[j])]
    ELSE vs[1]

\* a form call that bound a form with a value that does not coerce
CoercionFailed ==
    /\ (Called("BindForm") \/ Called("BindAndValidateForm"))
    /\ CoercionFails

\* C22: the type error of a form coercion failure carries the field's
\* external name, the display name of the field's declared type, and the raw
\* submitted value that failed to coerce; for a slice field that is the
\* element that failed, whatever its position in the submitted list.
C22_TypeErrorCarriesFailedValue ==
    CoercionFailed
    => LET f == InputShape.fields[FirstOffending(InputShape, form.values)]
       IN  /\ res.bindErr.type = "FormTypeError"
           /\ res.bindErr.field = FormKey(f)
           /\ res.bindErr.typ = TypeString(f.type)
           /\ res.bindErr.got = FailedRaw(f.type, form.values[FormKey(f)])

\* the same, for failures at the first value submitted for the field
C22_WhenFirstValueFails ==
    CoercionFailed
    => LET f == InputShape.fields[FirstOffending(InputShape, form.values)]
           vs == form.values[FormKey(f)]
       IN  FailedRaw(f.type, vs) = vs[1]
           => /\ res.bindErr.type = "FormTypeError"
              /\ res.bindErr.field = FormKey(f)
              /\ res.bindErr.typ = TypeString(f.type)
              /\ res.bindErr.got = vs[1]

\* a slice whose first element coerces and whose second does not
C22_WitnessLaterElement ==
    /\ CoercionFailed
    /\ LET f == InputShape.fields[FirstOffending(InputShape, form.values)]
           vs == form.values[FormKey(f)]
       IN  /\ f.type.kind = "slice"
           /\ FailedRaw(f.type, vs) # vs[1]

\* C23: a panic raised inside OnPanic is contained: it does not escape
\* SafeGo's goroutine, and the Result describing fn's original panic is still
\* delivered on the returned channel, so a caller waiting on the channel
\* eventually receives it.
C23_PanicInOnPanicStillDelivers ==
    (OnPanic = "panics" /\ fn.kind = "panics") =>
        /\ <>(gpc = "exit")
        /\ <>(Sends = 1)
        /\ wants => <>(caller = "received" /\ received = Expected)

\* the containment alone: the goroutine comes to its end, having called
\* OnPanic once with the error of fn's panic, and no Result is ever sent
C23_ContainedButNothingSent ==
    (OnPanic = "panics" /\ fn.kind = "panics") =>
        /\ <>(gpc = "exit" /\ handled = <<Expected.Err>>)
        /\ [](Sends = 0)
        /\ [](caller # "received")

\* the goroutine is over after a panic in OnPanic while the caller waits on
\* the empty channel
C23_WitnessWaitingForever ==
    /\ fn \in Fns
    /\ fn.kind = "panics"
    /\ OnPanic = "panics"
    /\ wants
    /\ caller = "holding"
    /\ gpc = "exit"
    /\ ch = <<>>

\* the fields a segment can name under a cursor: those of a record type, none
\* under any other type
FieldsNamed(current, name) ==
    IF current.kind = "struct" THEN FieldByName(current, name) ELSE <<>>

\* the name a segment carries: the text before its '[' when it has one
SegmentName(part) ==
    IF IndexOf(part, "[") >= 0 THEN SubSeq(part, 1, IndexOf(part, "[")) ELSE part

RECURSIVE SkippingWalk(_, _, _, _)
\* the walk in which a segment naming no field of the cursor's type is passed
\* over, with the path and the cursor as they were
SkippingWalk(parts, path, current, wire) ==
    IF parts = <<>> THEN path
    ELSE LET part == Head(parts)
             found == FieldsNamed(current, SegmentName(part))
             open == IndexOf(part, "[")
         IN  IF part = <<>> \/ found = <<>>
             THEN SkippingWalk(Tail(parts), path, current, wire)
             ELSE IF open >= 0
             THEN SkippingWalk(Tail(parts),
                      Append(path, ExternalName(found[1], wire) \o <<".">>
                                   \o SubSeq(part, open + 2, IndexOf(part, "]"))),
                      Descend(found[1].type, TRUE), wire)
             ELSE SkippingWalk(Tail(parts),
                      Append(path, ExternalName(found[1], wire)),
                      Descend(found[1].type, FALSE), wire)

\* the cursor after the segments walked so far
RECURSIVE CursorAfter(_, _)
CursorAfter(parts, current) ==
    IF parts = <<>> THEN current
    ELSE LET part == Head(parts)
             found == FieldsNamed(current, SegmentName(part))
         IN  IF part = <<>> \/ found = <<>>
             THEN CursorAfter(Tail(parts), current)
             ELSE CursorAfter(Tail(parts),
                      Descend(found[1].type, IndexOf(part, "[") >= 0))

\* a path with a segment that comes after the cursor reached a type that is
\* not a record
MeetsScalarCursor(root, fe) ==
    LET parts == Split(fe.ns, ".")
    IN  \E k \in 1..(Len(parts) - 1) :
           CursorAfter(SubSeq(parts, 1, k), root).kind # "struct"

\* C24: a path segment that names no field of the current shape is skipped:
\* it contributes nothing to the output path, leaves the shape cursor
\* unchanged, and never aborts resolution; this holds for every violation
\* path, including paths whose leading segment is the root record's own type
\* name and paths with further segments after the cursor has reached a
\* non-record type.
C24_UnknownSegmentIsSkipped ==
    (/\ Called("Validate") \/ Called("ValidateForm")
     /\ IsRecord(input))
    => LET reported == StructValidate(input).list
       IN  /\ \A k \in 1..Len(reported) :
                 Resolve(InputShape, reported[k], WireOf(op))
                   = [panic |-> FALSE,
                      path |-> JoinChars(SkippingWalk(Split(reported[k].ns, "."),
                                            <<>>, InputShape, WireOf(op)), <<".">>)]
           /\ ~res.out.panic

\* C24 for the paths whose cursor is a record type at every segment
C24_WhileCursorIsRecord ==
    (/\ Called("Validate") \/ Called("ValidateForm")
     /\ IsRecord(input))
    => LET reported == StructValidate(input).list
       IN  \A k \in 1..Len(reported) :
              ~MeetsScalarCursor(InputShape, reported[k])
              => Resolve(InputShape, reported[k], WireOf(op))
                   = [panic |-> FALSE,
                      path |-> JoinChars(SkippingWalk(Split(reported[k].ns, "."),
                                            <<>>, InputShape, WireOf(op)), <<".">>)]

\* a violation whose leading segment, the type's name, was passed over
C24_WitnessLeadingSkipped ==
    /\ Called("Validate")
    /\ IsRecord(input)
    /\ InputShape = ShapeUser
    /\ p_roles_0_name \in DOMAIN res.out.fieldErrors.m

\* a violation path with a segment left once the cursor is a string
C24_WitnessScalarCursor ==
    /\ Called("Validate") \/ Called("ValidateForm")
    /\ IsRecord(input)
    /\ \E k \in 1..Len(StructValidate(input).list) :
          MeetsScalarCursor(InputShape, StructValidate(input).list[k])

\* the slice fields binding reaches with a submitted list: bound, not a file
\* list, named in the form, and no field before them fails to coerce
ReachedSlices ==
    {i \in SubmittedFields :
        /\ InputShape.fields[i].type.kind = "slice"
        /\ ~isFileField(InputShape.fields[i].type)
        /\ \A j \in Offending(InputShape, form.values) : i <= j}

\* the element a raw value that coerces is bound to: the number or boolean
\* it reads as, and the zero value for the empty string
ElementOf(kind, raw) ==
    CASE kind = "string" -> raw
      [] raw = "" -> Zero([kind |-> kind])
      [] kind = "bool" -> raw = "1"
      [] raw = "1" -> 1
      [] raw = "-1" -> -1

\* C25: for a non-string slice field, form binding coerces the submitted
\* values one by one in order and aborts the whole bind at the first element
\* that fails; when every element coerces, the bound slice has the same
\* length and order as the submitted list, while a slice-of-string field
\* receives the submitted list verbatim.
C25_SliceBinding ==
    (/\ Called("BindForm")
     /\ input.kind = "ptr"
     /\ form.parseOk)
    => \A i \in ReachedSlices :
          LET elem == InputShape.fields[i].type.elem
              vs == form.values[FormKey(InputShape.fields[i])]
          IN  IF elem.kind = "string"
              THEN res.rec[i] = [nil |-> FALSE, elems |-> vs]
              ELSE IF \E k \in 1..Len(vs) : ~CoercesScalar(elem.kind, vs[k])
              THEN /\ ErrorAt(i)
                   /\ res.rec[i] = input.rec[i]
                   /\ \A j \in (i + 1)..Len(res.rec) : res.rec[j] = input.rec[j]
              ELSE /\ ~ErrorAt(i)
                   /\ ~res.rec[i].nil
                   /\ Len(res.rec[i].elems) = Len(vs)
                   /\ \A k \in 1..Len(vs) :
                         res.rec[i].elems[k] = ElementOf(elem.kind, vs[k])

\* three numbers in an order that tells positions apart were bound
C25_Witness ==
    /\ Called("BindForm")
    /\ input.kind = "ptr"
    /\ form.parseOk
    /\ \E i \in ReachedSlices :
          /\ InputShape.fields[i].type.elem.kind = "int"
          /\ form.values[FormKey(InputShape.fields[i])] = <<"1", "", "-1">>
          /\ res.rec[i].elems = <<1, 0, -1>>

\* the bind was aborted at the second element of a list
C25_WitnessAborted ==
    /\ Called("BindForm")
    /\ input.kind = "ptr"
    /\ form.parseOk
    /\ \E i \in ReachedSlices :
          /\ InputShape.fields[i].type.elem.kind = "int"
          /\ form.values[FormKey(InputShape.fields[i])] = <<"1", "x">>
          /\ input.rec[i] # Zero(InputShape.fields[i].type)
          /\ res.rec[i] = input.rec[i]

\* a list of strings was bound as submitted
C25_WitnessStrings ==
    /\ Called("BindForm")
    /\ input.kind = "ptr"
    /\ form.parseOk
    /\ \E i \in ReachedSlices :
          /\ InputShape.fields[i].type.elem.kind = "string"
          /\ res.rec[i].elems = <<"x", "", "1">>

\* C26: every implementation of the message translator (getErrorMessage in
\* json_validation.go and in validation.go) returns the table's messages for
\* the same kinds, in particular "field must be a valid email address" for
\* email and "field must be a valid UUID" for uuid, so the Validate variants
\* agree on the messages they report for the same violation.
C26_TranslatorsAgree ==
    Called("validation.getErrorMessage") =>
       /\ message = getErrorMessage(violation)
       /\ violation.tag = "email" => message = "field must be a valid email address"
       /\ violation.tag = "uuid" => message = "field must be a valid UUID"

\* the two translators on every kind but email and uuid
C26_AgreeButEmailAndUuid ==
    (Called("validation.getErrorMessage") /\ violation.tag \notin {"email", "uuid"})
    => message = getErrorMessage(violation)

\* validation.go's translator was given an email violation
C26_WitnessEmail ==
    /\ Called("validation.getErrorMessage")
    /\ violation.tag = "email"
    /\ message = "field is invalid"

\* C27: on every return path of BindAndValidateJSON and BindAndValidateForm
\* the returned map is nil exactly when the returned error is nil; a non-nil
\* map always has at least one key and every key holds at least one message,
\* and the error is then either invalid-body or invalid-data.
C27_MapNilIffErrorNil ==
    (/\ Called("BindAndValidateJSON") \/ Called("BindAndValidateForm")
     /\ ~res.out.panic)
    => /\ res.out.fieldErrors.nil <=> res.out.err = NilErr
       /\ res.out.fieldErrors.nil => DOMAIN res.out.fieldErrors.m = {}
       /\ ~res.out.fieldErrors.nil =>
             /\ DOMAIN res.out.fieldErrors.m # {}
             /\ \A key \in DOMAIN res.out.fieldErrors.m :
                   Len(res.out.fieldErrors.m[key]) >= 1
             /\ res.out.err \in {Err400InvalidBody, Err400InvalidData}

\* a form call returned a coercion failure's map with invalid-data
C27_Witness ==
    /\ Called("BindAndValidateForm")
    /\ ~res.validated
    /\ ~res.out.fieldErrors.nil
    /\ res.out.err = Err400InvalidData

\* a JSON call returned the syntax error's map with invalid-body
C27_WitnessInvalidBody ==
    /\ Called("BindAndValidateJSON")
    /\ ~res.out.fieldErrors.nil
    /\ res.out.err = Err400InvalidBody

\* a call returned the map of a validation pass with two keys
C27_WitnessValidated ==
    /\ Called("BindAndValidateJSON") \/ Called("BindAndValidateForm")
    /\ res.validated
    /\ Cardinality(DOMAIN res.out.fieldErrors.m) >= 2
    /\ res.out.err = Err400InvalidData

\* a call returned nil and nil
C27_WitnessNil ==
    /\ Called("BindAndValidateJSON") \/ Called("BindAndValidateForm")
    /\ ~res.out.panic
    /\ res.out.fieldErrors.nil
    /\ res.out.err = NilErr

RECURSIVE BoundValue(_, _, _)
\* the value a field of type t holding old is left with once the submitted
\* list vs, which coerces, is bound to it
BoundValue(t, old, vs) ==
    CASE t.kind = "ptr" ->
           IF vs[1] = "" THEN old ELSE <<BoundValue(t.elem, Zero(t.elem), vs)>>
      [] t.kind = "slice" ->
           [nil |-> FALSE,
            elems |-> [k \in 1..Len(vs) |-> ElementOf(t.elem.kind, vs[k])]]
      [] t.kind # "string" /\ vs[1] = "" -> old
      [] OTHER -> ElementOf(t.kind, vs[1])

\* a call of BindForm that returned a coercion error
BindFormFailed ==
    /\ Called("BindForm")
    /\ res.bindErr.type = "FormTypeError"

\* C28: when BindForm returns a coercion error for a field, that field and
\* every field declared after it keep the values they had before the call;
\* only fields declared before the failing field may have been assigned, and
\* they keep the values bound from the request (no rollback).
C28_FailedBindFrame ==
    BindFormFailed
    => LET i == FirstOffending(InputShape, form.values)
       IN  /\ ErrorAt(i)
           /\ \A j \in i..Len(InputShape.fields) : res.rec[j] = input.rec[j]
           /\ \A j \in 1..(i - 1) :
                 LET f == InputShape.fields[j]
                 IN  IF isFileField(f.type) /\ IsBound(f)
                     THEN res.rec[j] = IF form.multipart
                                       THEN setFileFieldValue(f.type, input.rec[j],
                                                AttachmentsFor(j))
                                       ELSE input.rec[j]
                     ELSE IF j \in SubmittedFields
                     THEN res.rec[j] = BoundValue(f.type, input.rec[j],
                                           form.values[FormKey(f)])
                     ELSE res.rec[j] = input.rec[j]

\* the bind failed at a later field after an earlier one took a new value,
\* with the failing field populated before the call
C28_Witness ==
    /\ BindFormFailed
    /\ LET i == FirstOffending(InputShape, form.values)
       IN  /\ i > 1
           /\ \E j \in 1..(i - 1) : res.rec[j] # input.rec[j]
           /\ input.rec[i] # Zero(InputShape.fields[i].type)
           /\ res.rec[i] = input.rec[i]


RECURSIVE DistinctPlainNames(_, _)
\* the precondition on names: in the record type t, and in every record type
\* reached from it, the external names of sibling fields (the Go name where
\* none is declared) are pairwise distinct and hold no '.'
DistinctPlainNames(t, wire) ==
    CASE t.kind = "struct" ->
           /\ \A i, j \in 1..Len(t.fields) :
                 i # j => DeclaredName(t.fields[i], wire)
                            # DeclaredName(t.fields[j], wire)
           /\ \A i \in 1..Len(t.fields) :
                 /\ IndexOf(DeclaredName(t.fields[i], wire), ".") < 0
                 /\ DistinctPlainNames(t.fields[i].type, wire)
      [] t.kind \in {"ptr", "slice"} -> DistinctPlainNames(t.elem, wire)
      [] OTHER -> TRUE

\* a returning validation of a record whose shape meets the precondition
ValidatedPlainNames ==
    /\ Called("Validate") \/ Called("ValidateForm")
    /\ IsRecord(input)
    /\ ~res.out.panic
    /\ DistinctPlainNames(InputShape, WireOf(op))

\* C29: if within every record shape the external names of sibling fields
\* are pairwise distinct and contain no '.', the path resolver is injective:
\* two violations on different fields or different slice indices never
\* resolve to the same key, so messages of different fields are never merged
\* under one key.  (The engine reports one violation per field or element,
\* so two entries of its list never share a namespace.)
C29_ResolverInjective ==
    ValidatedPlainNames
    => LET reported == StructValidate(input).list
       IN  /\ \A k, l \in 1..Len(reported) :
                 k # l =>
                   /\ reported[k].ns # reported[l].ns
                   /\ Resolve(InputShape, reported[k], WireOf(op)).path
                        # Resolve(InputShape, reported[l], WireOf(op)).path
           /\ \A key \in DOMAIN res.out.fieldErrors.m :
                 Len(res.out.fieldErrors.m[key]) = 1

\* C29 for the record types whose slices are indexed once
C29_ExceptSlicesOfSlices ==
    (ValidatedPlainNames /\ ~HasSliceOfSlices(InputShape))
    => LET reported == StructValidate(input).list
       IN  /\ \A k, l \in 1..Len(reported) :
                 k # l =>
                   Resolve(InputShape, reported[k], WireOf(op)).path
                     # Resolve(InputShape, reported[l], WireOf(op)).path
           /\ \A key \in DOMAIN res.out.fieldErrors.m :
                 Len(res.out.fieldErrors.m[key]) = 1

\* the violations of two cells of one row came back under one key
C29_WitnessMerged ==
    /\ ValidatedPlainNames
    /\ InputShape = ShapeGrid
    /\ \E key \in DOMAIN res.out.fieldErrors.m :
          Len(res.out.fieldErrors.m[key]) = 2

\* several violations of the nested request came back under keys of their own
C29_WitnessApart ==
    /\ ValidatedPlainNames
    /\ InputShape = ShapeUser
    /\ Len(StructValidate(input).list) >= 4

\* the key ValidateForm reports a violation of root-level field f under
ViolationKey(f) ==
    buildFormPath(InputShape,
        FieldError(Required, InputShape.name \o <<".">> \o f.name)).path

\* C30: for every field that form binding reads (any form tag other than
\* empty or "-", including tags with options such as "name,omitempty" or
\* ",omitempty"), the key under which a coercion failure of that field is
\* reported equals the key under which a constraint violation of the same
\* field is reported: FormTypeError.Field equals getFormTagName of the field.
C30_CoercionKeyIsViolationKey ==
    CoercionFailed
    => LET f == InputShape.fields[FirstOffending(InputShape, form.values)]
       IN  /\ res.bindErr.type = "FormTypeError"
           /\ res.bindErr.field = getFormTagName(f)
           /\ res.bindErr.field = ViolationKey(f)
           /\ Called("BindAndValidateForm")
                 => DOMAIN res.out.fieldErrors.m = {ViolationKey(f)}

\* C30 for the tags that carry a name before the first comma
C30_WhenTagCarriesName ==
    CoercionFailed
    => LET f == InputShape.fields[FirstOffending(InputShape, form.values)]
       IN  TagName(f.form) \notin {<<>>, s_dash}
           => /\ res.bindErr.field = getFormTagName(f)
              /\ res.bindErr.field = ViolationKey(f)
              /\ Called("BindAndValidateForm")
                    => DOMAIN res.out.fieldErrors.m = {ViolationKey(f)}

\* a value submitted under the empty key failed to coerce for a field tagged
\* ",omitempty"
C30_WitnessOptionsOnly ==
    /\ Called("BindAndValidateForm")
    /\ CoercionFails
    /\ LET f == InputShape.fields[FirstOffending(InputShape, form.values)]
       IN  /\ f.form = s_omitempty
           /\ DOMAIN res.out.fieldErrors.m = {<<>>}
           /\ ViolationKey(f) = f.name

\* a value failed to coerce for a field tagged with a name and an option
C30_WitnessNameAndOption ==
    /\ CoercionFailed
    /\ LET f == InputShape.fields[FirstOffending(InputShape, form.values)]
       IN  /\ TagName(f.form) \notin {<<>>, f.form}
           /\ res.bindErr.field = TagName(f.form)

====
